---------------------------- MODULE Spec2Model ----------------------------
(***************************************************************************)
(* Restore engine of clickhouse-backup (pkg/backup/restore.go and          *)
(* pkg/filesystemhelper/filesystemhelper.go) as state machines.            *)
(*                                                                         *)
(* The module holds several specifications over one set of variables; a    *)
(* specification drives the variables of the operation it models and       *)
(* leaves the others at their initial value:                               *)
(*   SpecSchema / FairSpecSchema  dropExistsTables and restoreSchemaRegular *)
(*   SpecData   restoreEmptyDatabase, RestoreData, restoreDataRegular and   *)
(*              restoreEmbedded of one Restore call                         *)
(*   SpecCopy   CopyDataToDetached (with Mkdir, MkdirAll and Chown) run     *)
(*              repeatedly over one table on a small file system            *)
(*   SpecRestore  Restore: locating the manifest, the empty databases, the  *)
(*              RBAC / configs path and the choice of the phases            *)
(*   SpecMapping  prepareRestoreDatabaseMapping on one list of arguments    *)
(*   SpecPartitions  CreatePartitionsToBackupMap on one list of arguments   *)
(*   SpecChown  Chown called concurrently from several threads              *)
(*   SpecRestoreSchema  RestoreSchema: the selection, dropExistsTables and  *)
(*              then restoreSchemaRegular or restoreSchemaEmbedded          *)
(*   SpecSelect  one RestoreSchema call or one data restore               *)
(***************************************************************************)
EXTENDS Integers, Sequences, FiniteSets, TLC

(***************************************************************************)
(* Bounds of the model.                                                    *)
(***************************************************************************)
MaxTables == 3      \* tables in the list handed to the drop / create loop
MaxDeps == 1        \* tables one table may depend on
MaxGuessed == 1     \* tables of the drop list without captured DDL
MaxDataTables == 3  \* tables captured in the backup of a data restore
MaxRules == 1       \* rules of the database mapping
MaxParts == 2       \* parts of the table CopyDataToDetached places
MaxRuns == 2        \* CopyDataToDetached calls for the same table
MaxDatabases == 2   \* databases in the manifest Restore reads
MaxMappingLen == 5  \* characters in the databaseMapping arguments of a call
MaxPartitionLen == 2  \* characters of a partition argument drawn from all strings
MaxThreads == 2     \* threads that call Chown concurrently
MaxChownCalls == 2  \* Chown calls one thread makes

VARIABLES
    \* ---- restoreSchemaRegular / dropExistsTables ----
    phase,              \* "none" | "create" | "drop": the loop this behaviour runs
    sPc,                \* "enter" | "body" | "done": position in the loop
    totalRetries,       \* totalRetries := len(tables)
    tablesForRestore,   \* work queue of the create loop (table ids)
    notRestoredTables,  \* failed entries of the running create pass
    restoreRetries,     \* restoreRetries
    isDatabaseCreated,  \* set of database names CreateDatabase succeeded for
    tablesForDrop,      \* work queue of the drop loop: records [id, Query]
    notDroppedTables,   \* failed entries of the running drop pass
    dropRetries,        \* dropRetries
    callerTables,       \* the caller's slice (RestoreSchema's tablesForRestore)
    dropAliased,        \* tablesForDrop still is the caller's slice
    sIdx,               \* index of the range loop inside the running pass
    schemaErr,          \* "none" | "nil" | "dependency" | "database": returned error
    \* environment of the loops (the engine behind b.ch)
    envMode,            \* "deps": an operation fails iff a dependency is missing
                        \* "any": every outcome is possible, stuck tables always fail
    deps,               \* deps[t]: tables t depends on
    stuck,              \* tables whose operation fails on every attempt
    done,               \* tables the engine has created (create) / dropped (drop)
    \* history of the run, kept for the properties
    passes,             \* passes over the work queue begun so far
    okAttempts,         \* okAttempts[t]: attempts of t that ended with a nil error
    failedInPass,       \* entries whose attempt failed in the running pass
    lastFailed,         \* failedInPass of the pass before, when a pass begins
    dbAttempts,         \* dbAttempts[d]: CreateDatabase calls for database d
    lateAttempt,        \* an attempt was made for a table that had succeeded
    lastDrop,           \* the attempt the drop loop has just made, when for a
                        \* table without captured DDL: how many statements
                        \* were issued, the first one that succeeded (0: none)
    \* ---- Restore: restoreEmptyDatabase, RestoreData, restoreDataRegular,
    \*      restoreEmbedded ----
    dPc,                \* position in the call
    mapping,            \* b.cfg.General.RestoreDatabaseMapping
    isEmbedded,         \* the backup is an embedded one
    manifestDbs,        \* backupMetadata.Databases (names)
    backupTables,       \* the tables captured in the backup
    liveTables,         \* the tables of the live engine: <<database, name>>
    disks,              \* the disk list of the engine (GetDisks)
    origPattern,        \* tablePattern as given by the caller
    tablePattern,       \* tablePattern of restoreDataRegular (rewritten)
    dataTables,         \* tablesForRestore of RestoreData / restoreDataRegular
    dDisks,             \* disks of restoreDataRegular (extended in place)
    chTables,           \* result of b.ch.GetTables
    missingTables,      \* missingTables
    dIdx,               \* index of the loop the call is in
    dataErr,            \* "none" | "nil" | the error returned
    \* what the call did, kept for the properties
    dbIssued,           \* dbIssued[d]: database name restoreEmptyDatabase created
    checkedNames,       \* destination names looked up by the missing-table check
    copyCalls,          \* CopyDataToDetached calls: table passed and disks placed
    attachCalls,        \* AttachPartitions calls: table passed and disk list
    embeddedEntries,    \* entries of the statement restoreEmbedded built
    restoreResults,     \* restoreEmbedded: whether the query was submitted, the
                        \* error of b.ch.Select and the Status of the rows read
    embeddedCall,       \* restoreEmbedded: its partitions argument and the
                        \* tablesSQL it built, as a sequence of tokens
    \* ---- CopyDataToDetached, Mkdir, MkdirAll, Chown ----
    cPc,                \* "idle" | "begin" | "walk" | "blocked" | "done"
    cRun,               \* number of the running CopyDataToDetached call
    cPart,              \* index of the part the part loop is at
    cWalk,              \* entries filepath.Walk has still to visit
    nParts,             \* len(backupTable.Parts[disk])
    srcAt,              \* where the part directories are in the backup:
                        \* "disk" (shadow/db/table/disk/part), "legacy"
                        \* (shadow/db/table/part) or "none"
    srcTree,            \* kind of each entry below a part directory
    dst,                \* the destination file system: kind of each path
    copyErr,            \* "none" | "nil" | the error the call returned
    walkCause,          \* what made the Walk callback return an error
    privileged,         \* os.Getuid() == 0
    lookupWorks,        \* GetDefaultPath and os.Stat(dataPath) succeed
    uid,                \* uid / gid are cached (uid != nil)
    chownLock,          \* chownLock is held
    \* what the calls did, kept for the properties
    dstAfterFirst,      \* dst when the first call returned nil
    existsSwallowed,    \* a link attempt of this call answered "exists"
    \* ---- Restore ----
    rPc,                \* position in Restore
    schemaOnly, dataOnly, dropTable, rbacOnly, configsOnly,  \* the arguments
    rMapping,           \* b.cfg.General.RestoreDatabaseMapping after line 39
    embeddedBackupPath, \* "unset" | "set" | "empty"
    regularRead,        \* os.ReadFile of the regular metadata.json:
                        \* "unread" | "ok" | "notexist" | "error"
    embeddedRead,       \* os.ReadFile of the embedded metadata.json
    pathPrefix,         \* embeddedBackupPath is a prefix of the regular path
    bodyFrom,           \* where backupMetadataBody was read from
    rIsEmbedded,        \* isEmbedded
    rErr,               \* err after line 87: "nil" | "notexist" | "other"
    onCluster,          \* RestoreSchemaOnCluster: "" | "set"
    macros,             \* b.ch.ApplyMacros: "none" | "ok" | "error"
    manifest,           \* backupMetadata: Databases, Tables, Functions
    rIdx,               \* index of the loop over backupMetadata.Databases
    rCalls,             \* calls Restore made, in order: [op, arg, ok]
    restoreErr,         \* "none" | "nil" | the error Restore returned
    \* ---- prepareRestoreDatabaseMapping ----
    mPc,                \* "idle" | "start" | "run" | "done"
    databaseMapping,    \* the arguments: a list of strings
    mArg,               \* i of the loop over databaseMapping
    mRule,              \* index of the loop over splitByCommas
    mMap,               \* b.cfg.General.RestoreDatabaseMapping
    mErr,               \* "none" | "nil" | "format"
    \* ---- CreatePartitionsToBackupMap ----
    pPc,                \* "idle" | "start" | "args" | "done"
    partitions,         \* the arguments: a list of strings
    tablesFromClickHouse, tablesFromMetadata,  \* how many tables of each kind
    pArg,               \* index of the loop over partitions
    pTuple,             \* index of the loop over the tuples of an argument
    partitionsMap,      \* partitionsMap: the set of its keys
    retMap,             \* first value returned: the set of its keys
    retList,            \* second value returned
    evalFailed,         \* a call of partition.GetPartitionId returned an error
    \* ---- Chown called from several threads ----
    isRoot,             \* os.Getuid() = 0
    thread,             \* thread[t]: pc ("idle" | "lock" | "check" | "lookup" |
                        \* "unlock" | "apply"), calls (Chown calls begun), ret
                        \* (result of the last call) and applied (the uid/gid
                        \* pairs its os.Chown calls were given)
    lockHolder,         \* the thread that locked chownLock, 0 when unlocked
    cachedIds,          \* the package variables uid and gid: NoIds or a pair
    lookups,            \* ownership lookups that completed successfully
    everCached,         \* every value stored into uid / gid so far
    \* ---- RestoreSchema ----
    schemaCall          \* the RestoreSchema call that drives the two loops:
                        \* whether there is one, dropTable and isEmbedded

schemaVars == <<phase, sPc, totalRetries, tablesForRestore, notRestoredTables,
                restoreRetries, isDatabaseCreated, tablesForDrop,
                notDroppedTables, dropRetries, callerTables, dropAliased,
                sIdx, schemaErr,
                envMode, deps, stuck, done, passes, okAttempts,
                failedInPass, lastFailed, dbAttempts, lateAttempt, lastDrop>>

dataVars == <<dPc, mapping, isEmbedded, manifestDbs, backupTables, liveTables,
              disks, origPattern, tablePattern, dataTables, dDisks, chTables,
              missingTables, dIdx, dataErr, dbIssued, checkedNames, copyCalls,
              attachCalls, embeddedEntries, restoreResults,
                   embeddedCall>>

copyVars == <<cPc, cRun, cPart, cWalk, nParts, srcAt, srcTree, dst, copyErr,
              walkCause, privileged, lookupWorks, uid, chownLock,
              dstAfterFirst, existsSwallowed>>

restoreArgs == <<schemaOnly, dataOnly, dropTable, rbacOnly, configsOnly>>

restoreVars == <<rPc, restoreArgs, rMapping, embeddedBackupPath, regularRead,
                 embeddedRead, pathPrefix, bodyFrom, rIsEmbedded, rErr,
                 onCluster, macros, manifest, rIdx, rCalls, restoreErr>>

\* the variables of the specifications other than the loops, the data path
\* and the placement
mappingVars == <<mPc, databaseMapping, mArg, mRule, mMap, mErr>>

partitionVars == <<pPc, partitions, tablesFromClickHouse, tablesFromMetadata,
                   pArg, pTuple, partitionsMap, retMap, retList, evalFailed>>

chownVars == <<isRoot, thread, lockHolder, cachedIds, lookups, everCached>>

moreVars == <<restoreVars, mappingVars, partitionVars, chownVars, schemaCall>>

\* what an action of CreatePartitionsToBackupMap leaves alone
partitionOthers == <<schemaVars, dataVars, copyVars, restoreVars, mappingVars,
                     chownVars, schemaCall>>

\* what an action of Restore leaves alone
restoreOthers == <<schemaVars, dataVars, copyVars, mappingVars, partitionVars,
                   chownVars, schemaCall>>

\* what an action of prepareRestoreDatabaseMapping leaves alone
mappingOthers == <<schemaVars, dataVars, copyVars, restoreVars, partitionVars,
                   chownVars, schemaCall>>

\* what an action of the concurrent Chown calls leaves alone
chownOthers == <<schemaVars, dataVars, copyVars, restoreVars, mappingVars,
                 partitionVars, schemaCall>>

\* what an action of RestoreSchema outside the two loops leaves alone
schemaCallOthers == <<dataVars, copyVars, restoreVars, mappingVars,
                      partitionVars, chownVars>>

vars == <<schemaVars, dataVars, copyVars, moreVars>>

NoManifest == [Databases |-> <<>>, Tables |-> 0, Functions |-> 0]

\* Restore at rest, for the specifications that do not drive it
RestoreIdle ==
    /\ rPc = "idle"
    /\ schemaOnly = FALSE /\ dataOnly = FALSE /\ dropTable = FALSE
    /\ rbacOnly = FALSE /\ configsOnly = FALSE
    /\ rMapping = <<>> /\ embeddedBackupPath = "unset"
    /\ regularRead = "unread" /\ embeddedRead = "unread"
    /\ pathPrefix = FALSE /\ bodyFrom = "none" /\ rIsEmbedded = FALSE
    /\ rErr = "nil" /\ onCluster = "" /\ macros = "none"
    /\ manifest = NoManifest /\ rIdx = 1 /\ rCalls = <<>>
    /\ restoreErr = "none"

\* every specification added after the first three, at rest
MappingIdle ==
    /\ mPc = "idle" /\ databaseMapping = <<>> /\ mArg = 1 /\ mRule = 1
    /\ mMap = <<>> /\ mErr = "none"

PartitionIdle ==
    /\ pPc = "idle" /\ partitions = <<>>
    /\ tablesFromClickHouse = 0 /\ tablesFromMetadata = 0
    /\ pArg = 1 /\ pTuple = 1 /\ partitionsMap = {}
    /\ retMap = {} /\ retList = <<>> /\ evalFailed = FALSE

\* uid and gid before the first successful lookup (both nil)
NoIds == <<0, 0>>

\* threads that call Chown
Threads == 1 .. MaxThreads

\* a thread outside Chown that has not called it yet
FreshThread == [pc |-> "idle", calls |-> 0, ret |-> "none", applied |-> {}]

ChownIdle ==
    /\ isRoot = FALSE /\ thread = <<>> /\ lockHolder = 0
    /\ cachedIds = NoIds /\ lookups = 0 /\ everCached = {}

\* the two loops run on their own, outside a RestoreSchema call
NoSchemaCall == [active |-> FALSE, dropTable |-> FALSE, isEmbedded |-> FALSE]

MoreIdle ==
    /\ RestoreIdle /\ MappingIdle /\ PartitionIdle /\ ChownIdle
    /\ schemaCall = NoSchemaCall

\* paths below one part directory, in the order filepath.Walk visits them
Rels == {".", "d", "d/g", "f"}

\* detachedParentDir: <data path of the disk>/detached
DetachedParent == <<0, ".">>

\* destination paths: detachedParentDir and, for each part, the mirror of Rels
DestPaths == {DetachedParent} \cup ((1 .. MaxParts) \X Rels)

\* the placement path at rest, for the specifications that do not drive it
CopyIdle ==
    /\ cPc = "idle" /\ cRun = 0 /\ cPart = 1 /\ cWalk = <<>> /\ nParts = 0
    /\ srcAt = "none" /\ srcTree = [r \in Rels |-> "none"]
    /\ dst = [p \in DestPaths |-> "absent"]
    /\ copyErr = "none" /\ walkCause = "none"
    /\ privileged = FALSE /\ lookupWorks = TRUE
    /\ uid = FALSE /\ chownLock = FALSE
    /\ dstAfterFirst = dst /\ existsSwallowed = FALSE

\* embeddedCall before restoreEmbedded ran
NoEmbeddedCall == [partitions |-> <<>>, tablesSQL |-> <<>>]

\* the data path at rest, for the specifications that do not drive it
DataIdle ==
    /\ dPc = "idle" /\ mapping = <<>> /\ isEmbedded = FALSE
    /\ manifestDbs = <<>> /\ backupTables = <<>> /\ liveTables = {}
    /\ disks = <<>> /\ origPattern = <<>> /\ tablePattern = <<>>
    /\ dataTables = <<>> /\ dDisks = <<>> /\ chTables = {}
    /\ missingTables = <<>> /\ dIdx = 1
    /\ dataErr = [kind |-> "none", names |-> <<>>]
    /\ dbIssued = <<>> /\ checkedNames = <<>> /\ copyCalls = <<>>
    /\ attachCalls = <<>> /\ embeddedEntries = <<>>
    /\ restoreResults = [asked |-> FALSE, err |-> FALSE, rows |-> <<>>]
    /\ embeddedCall = NoEmbeddedCall

(***************************************************************************)
(* Helpers.                                                                *)
(***************************************************************************)
Tables == 1 .. MaxTables

Databases == {"db1", "db2"}

\* schema.Database of table t: tables alternate between two databases
TableDatabase(t) == IF t % 2 = 1 THEN "db1" ELSE "db2"

Range(s) == {s[i] : i \in 1 .. Len(s)}

\* the tables that can be created at all: least set closed under
\* "all dependencies are in the set"
RECURSIVE Creatable(_, _, _)
Creatable(S, all, d) ==
    LET more == {t \in all \ S : d[t] \subseteq S}
    IN  IF more = {} THEN S ELSE Creatable(S \cup more, all, d)

Acyclic(all, d) ==
    /\ \A t \in all : d[t] \subseteq all
    /\ Creatable({}, all, d) = all

(***************************************************************************)
(* The engine behind b.ch, as the loops see it.                            *)
(***************************************************************************)
DepSets == {S \in SUBSET Tables : Cardinality(S) <= MaxDeps}

\* the results one CreateTable / DropTable call for table t can return
\* (TRUE: nil error)
CallOutcomes(t) ==
    IF t \in stuck THEN {FALSE}
    ELSE IF envMode = "deps" THEN {deps[t] \subseteq done}
    ELSE BOOLEAN

Bump(f, x) == [f EXCEPT ![x] = @ + 1]

(***************************************************************************)
(* The retry loop, as both functions write it.                             *)
(***************************************************************************)
\* a set of created databases that is never consulted
IsCreatedNever(created, db) == FALSE

\* _, isCreated := isDatabaseCreated[schema.Database]
IsCreated(created, db) == db \in created

\* for restoreRetries < totalRetries   /   for dropRetries < totalRetries
LoopCondition(retries, total) == retries < total

\* a budget that is never exhausted inside a pass
BudgetExhaustedLate(retries, total) == retries >= total * total + total + 1

\* if restoreRetries >= totalRetries { return fmt.Errorf(...) }
BudgetExhausted(retries, total) == retries >= total

\* a failed entry that is not carried over
AppendFailedLost(list, entry) == list

\* notRestoredTables = append(notRestoredTables, schema)
AppendFailed(list, entry) == Append(list, entry)

(***************************************************************************)
(* restoreSchemaRegular                                                    *)
(***************************************************************************)
\* entry of the function up to the first evaluation of the loop condition
CreateEnter ==
    /\ UNCHANGED <<dataVars, copyVars, moreVars, lastDrop>>
    /\ phase = "create" /\ sPc = "enter"
    /\ IF LoopCondition(restoreRetries, totalRetries)
       THEN /\ sPc' = "body"
            /\ sIdx' = 1
            /\ notRestoredTables' = <<>>
            /\ passes' = passes + 1
            /\ UNCHANGED schemaErr
       ELSE /\ sPc' = "done"
            /\ schemaErr' = "nil"
            /\ UNCHANGED <<sIdx, notRestoredTables, passes>>
    /\ UNCHANGED <<phase, totalRetries, tablesForRestore, restoreRetries,
                   isDatabaseCreated, tablesForDrop, notDroppedTables,
                   dropRetries, callerTables, dropAliased, envMode, deps,
                   stuck, done, okAttempts, failedInPass, lastFailed,
                   dbAttempts, lateAttempt>>

\* one iteration of "for _, schema := range tablesForRestore"
CreateAttempt ==
    /\ UNCHANGED <<dataVars, copyVars, moreVars, lastDrop>>
    /\ phase = "create" /\ sPc = "body" /\ sIdx <= Len(tablesForRestore)
    /\ LET schema == tablesForRestore[sIdx]
           db == TableDatabase(schema)
           isCreated == IsCreated(isDatabaseCreated, db)
       IN  \E dbOk \in BOOLEAN, ok \in CallOutcomes(schema) :
            /\ dbAttempts' = IF isCreated THEN dbAttempts ELSE Bump(dbAttempts, db)
            /\ IF ~isCreated /\ ~dbOk
               THEN \* can't create database
                    /\ sPc' = "done"
                    /\ schemaErr' = "database"
                    /\ UNCHANGED <<isDatabaseCreated, restoreRetries,
                                   notRestoredTables, sIdx, done, okAttempts,
                                   failedInPass, lateAttempt>>
               ELSE /\ isDatabaseCreated' = isDatabaseCreated \cup {db}
                    /\ lateAttempt' = (lateAttempt \/ okAttempts[schema] > 0)
                    /\ IF ok
                       THEN /\ done' = done \cup {schema}
                            /\ okAttempts' = Bump(okAttempts, schema)
                            /\ sIdx' = sIdx + 1
                            /\ UNCHANGED <<restoreRetries, notRestoredTables,
                                           failedInPass, sPc, schemaErr>>
                       ELSE /\ restoreRetries' = restoreRetries + 1
                            /\ failedInPass' = Append(failedInPass, schema)
                            /\ UNCHANGED <<done, okAttempts>>
                            /\ IF BudgetExhausted(restoreRetries', totalRetries)
                               THEN /\ sPc' = "done"
                                    /\ schemaErr' = "dependency"
                                    /\ UNCHANGED <<notRestoredTables, sIdx>>
                               ELSE /\ notRestoredTables' =
                                           AppendFailed(notRestoredTables, schema)
                                    /\ sIdx' = sIdx + 1
                                    /\ UNCHANGED <<sPc, schemaErr>>
    /\ UNCHANGED <<phase, totalRetries, tablesForRestore, tablesForDrop,
                   notDroppedTables, dropRetries, callerTables, dropAliased,
                   envMode, deps, stuck, passes, lastFailed>>

\* end of a pass: tablesForRestore = notRestoredTables, the break, and the
\* loop condition of the next pass
CreatePassEnd ==
    /\ UNCHANGED <<dataVars, copyVars, moreVars, lastDrop>>
    /\ phase = "create" /\ sPc = "body" /\ sIdx > Len(tablesForRestore)
    /\ tablesForRestore' = notRestoredTables
    /\ IF Len(notRestoredTables) = 0
          \/ ~LoopCondition(restoreRetries, totalRetries)
       THEN /\ sPc' = "done"
            /\ schemaErr' = "nil"
            /\ UNCHANGED <<sIdx, notRestoredTables, passes, failedInPass,
                           lastFailed>>
       ELSE /\ sIdx' = 1
            /\ notRestoredTables' = <<>>
            /\ passes' = passes + 1
            /\ lastFailed' = failedInPass
            /\ failedInPass' = <<>>
            /\ UNCHANGED <<sPc, schemaErr>>
    /\ UNCHANGED <<phase, totalRetries, restoreRetries, isDatabaseCreated,
                   tablesForDrop, notDroppedTables, dropRetries, callerTables,
                   dropAliased, envMode, deps, stuck, done, okAttempts,
                   dbAttempts, lateAttempt>>

(***************************************************************************)
(* dropExistsTables                                                        *)
(***************************************************************************)
\* lastDrop when the last step was not an attempt for a table without
\* captured DDL
NoDrop == [issued |-> 0, firstOk |-> 0]

\* possibleQueries of a table without captured DDL, by kind of object
PossibleQueries(hasParts) ==
    IF hasParts THEN <<"TABLE", "DICTIONARY", "MATERIALIZED VIEW">>
    ELSE <<"DICTIONARY", "MATERIALIZED VIEW">>

\* the results of the DropTable calls of one attempt for table t, one per
\* statement issued
DropResults(t, n) ==
    {r \in [1 .. n -> BOOLEAN] : \A k \in 1 .. n : r[k] \in CallOutcomes(t)}

\* dropErr after the statements of one attempt: the error of the last call
DropErr(results) == ~results[Len(results)]

\* tablesForDrop[i].Query after "for _, query := range possibleQueries":
\* every call that returned nil stores its statement
StoredQuery(old, queries, results) ==
    LET hits == {k \in 1 .. Len(queries) : results[k]}
    IN  IF hits = {} THEN old
        ELSE queries[CHOOSE k \in hits : \A j \in hits : j <= k]

DropEnter ==
    /\ UNCHANGED <<dataVars, copyVars, moreVars, lastDrop>>
    /\ phase = "drop" /\ sPc = "enter"
    /\ IF LoopCondition(dropRetries, totalRetries)
       THEN /\ sPc' = "body"
            /\ sIdx' = 1
            /\ notDroppedTables' = <<>>
            /\ passes' = passes + 1
            /\ UNCHANGED schemaErr
       ELSE /\ sPc' = "done"
            /\ schemaErr' = "nil"
            /\ UNCHANGED <<sIdx, notDroppedTables, passes>>
    /\ UNCHANGED <<phase, totalRetries, tablesForRestore, notRestoredTables,
                   restoreRetries, isDatabaseCreated, tablesForDrop,
                   dropRetries, callerTables, dropAliased, envMode, deps,
                   stuck, done, okAttempts, failedInPass, lastFailed,
                   dbAttempts, lateAttempt>>

\* one iteration of "for i, schema := range tablesForDrop"
DropAttempt ==
    /\ UNCHANGED <<dataVars, copyVars, moreVars>>
    /\ phase = "drop" /\ sPc = "body" /\ sIdx <= Len(tablesForDrop)
    /\ LET schema == tablesForDrop[sIdx]
           queries == IF schema.Query = "" THEN PossibleQueries(schema.hasParts)
                      ELSE <<schema.Query>>
       IN  \E results \in DropResults(schema.id, Len(queries)) :
            LET stored == IF schema.Query = ""
                          THEN StoredQuery(schema.Query, queries, results)
                          ELSE schema.Query
                nOk == Cardinality({k \in 1 .. Len(queries) : results[k]})
            IN  /\ tablesForDrop' = [tablesForDrop EXCEPT ![sIdx].Query = stored]
                /\ callerTables' = IF dropAliased
                                   THEN [callerTables EXCEPT ![sIdx].Query = stored]
                                   ELSE callerTables
                /\ done' = IF nOk > 0 THEN done \cup {schema.id} ELSE done
                /\ lateAttempt' = (lateAttempt \/ okAttempts[schema.id] > 0)
                /\ lastDrop' =
                      IF schema.Query # "" THEN NoDrop ELSE
                      [issued |-> Len(results),
                       firstOk |-> IF nOk = 0 THEN 0
                                   ELSE CHOOSE k \in 1 .. Len(queries) :
                                          results[k] /\ \A j \in 1 .. k - 1 : ~results[j]]
                /\ IF ~DropErr(results)
                   THEN /\ okAttempts' = Bump(okAttempts, schema.id)
                        /\ sIdx' = sIdx + 1
                        /\ UNCHANGED <<dropRetries, notDroppedTables,
                                       failedInPass, sPc, schemaErr>>
                   ELSE /\ dropRetries' = dropRetries + 1
                        /\ failedInPass' = Append(failedInPass, schema.id)
                        /\ UNCHANGED okAttempts
                        /\ IF BudgetExhausted(dropRetries', totalRetries)
                           THEN /\ sPc' = "done"
                                /\ schemaErr' = "dependency"
                                /\ UNCHANGED <<notDroppedTables, sIdx>>
                           ELSE /\ notDroppedTables' =
                                       AppendFailed(notDroppedTables, schema)
                                /\ sIdx' = sIdx + 1
                                /\ UNCHANGED <<sPc, schemaErr>>
    /\ UNCHANGED <<phase, totalRetries, tablesForRestore, notRestoredTables,
                   restoreRetries, isDatabaseCreated, dropAliased, envMode,
                   deps, stuck, passes, lastFailed, dbAttempts>>

\* end of a pass: tablesForDrop = notDroppedTables, the break, and the loop
\* condition of the next pass
DropPassEnd ==
    /\ UNCHANGED <<dataVars, copyVars, moreVars>>
    /\ lastDrop' = NoDrop
    /\ phase = "drop" /\ sPc = "body" /\ sIdx > Len(tablesForDrop)
    /\ tablesForDrop' = notDroppedTables
    /\ dropAliased' = FALSE
    /\ IF Len(notDroppedTables) = 0 \/ ~LoopCondition(dropRetries, totalRetries)
       THEN /\ sPc' = "done"
            /\ schemaErr' = "nil"
            /\ UNCHANGED <<sIdx, notDroppedTables, passes, failedInPass,
                           lastFailed>>
       ELSE /\ sIdx' = 1
            /\ notDroppedTables' = <<>>
            /\ passes' = passes + 1
            /\ lastFailed' = failedInPass
            /\ failedInPass' = <<>>
            /\ UNCHANGED <<sPc, schemaErr>>
    /\ UNCHANGED <<phase, totalRetries, tablesForRestore, notRestoredTables,
                   restoreRetries, isDatabaseCreated, dropRetries,
                   callerTables, envMode, deps, stuck, done, okAttempts,
                   dbAttempts, lateAttempt>>

(***************************************************************************)
(* Specification of the two loops: one behaviour runs one loop on one list *)
(* of tables against one engine.                                           *)
(***************************************************************************)
\* captured metadata of table t: with DDL, without DDL and with parts,
\* without DDL and without parts
TableKinds == {"ddl", "parts", "bare"}

TableEntry(t, kind) ==
    [id |-> t, Query |-> IF kind = "ddl" THEN "DDL" ELSE "",
     hasParts |-> (kind = "parts")]

SchemaIdle ==
    /\ phase = "none" /\ sPc = "done" /\ totalRetries = 0
    /\ tablesForRestore = <<>> /\ notRestoredTables = <<>>
    /\ restoreRetries = 0 /\ isDatabaseCreated = {}
    /\ tablesForDrop = <<>> /\ notDroppedTables = <<>> /\ dropRetries = 0
    /\ callerTables = <<>> /\ dropAliased = FALSE
    /\ sIdx = 1 /\ schemaErr = "none"
    /\ envMode = "any" /\ deps = [t \in Tables |-> {}] /\ stuck = {}
    /\ done = {} /\ passes = 0
    /\ okAttempts = [t \in Tables |-> 0]
    /\ failedInPass = <<>> /\ lastFailed = <<>>
    /\ dbAttempts = [d \in Databases |-> 0] /\ lateAttempt = FALSE
    /\ lastDrop = NoDrop

InitSchema ==
    /\ DataIdle /\ CopyIdle /\ MoreIdle
    /\ phase \in {"create", "drop"}
    /\ sPc = "enter"
    /\ totalRetries \in 0 .. MaxTables
    /\ envMode \in IF phase = "create" THEN {"deps", "any"} ELSE {"any"}
    /\ deps \in [Tables -> DepSets]
    /\ \A t \in Tables : deps[t] \subseteq 1 .. totalRetries
    /\ \A t \in Tables : (envMode = "any" \/ t > totalRetries) => deps[t] = {}
    /\ stuck \in SUBSET (1 .. totalRetries)
    /\ envMode = "deps" => stuck = {}
    /\ tablesForRestore = IF phase = "create"
                          THEN [i \in 1 .. totalRetries |-> i] ELSE <<>>
    /\ callerTables \in
          IF phase = "drop"
          THEN {[i \in 1 .. totalRetries |-> TableEntry(i, kinds[i])] :
                   kinds \in {k \in [1 .. totalRetries -> TableKinds] :
                       Cardinality({i \in 1 .. totalRetries : k[i] # "ddl"})
                           <= MaxGuessed}}
          ELSE {<<>>}
    /\ tablesForDrop = callerTables
    /\ dropAliased = (phase = "drop")
    /\ notRestoredTables = <<>> /\ restoreRetries = 0
    /\ isDatabaseCreated = {}
    /\ notDroppedTables = <<>> /\ dropRetries = 0
    /\ sIdx = 1 /\ schemaErr = "none"
    /\ done = {} /\ passes = 0
    /\ okAttempts = [t \in Tables |-> 0]
    /\ failedInPass = <<>> /\ lastFailed = <<>>
    /\ dbAttempts = [d \in Databases |-> 0] /\ lateAttempt = FALSE
    /\ lastDrop = NoDrop

NextSchema ==
    \/ CreateEnter
    \/ CreateAttempt
    \/ CreatePassEnd
    \/ DropEnter
    \/ DropAttempt
    \/ DropPassEnd

SpecSchema == InitSchema /\ [][NextSchema]_vars

\* the loops are sequential code whose driver calls return: a loop that can
\* take a step takes it
FairSpecSchema == SpecSchema /\ WF_vars(NextSchema)

(***************************************************************************)
(* Properties of the drop and create loops.                                *)
(***************************************************************************)
InitialTables == 1 .. totalRetries

\* the work queue of the running loop, as table ids
QueueIds ==
    IF phase = "create" THEN tablesForRestore
    ELSE [i \in 1 .. Len(tablesForDrop) |-> tablesForDrop[i].id]

\* the failed entries the running pass has collected, as table ids
CarriedIds ==
    IF phase = "create" THEN notRestoredTables
    ELSE [i \in 1 .. Len(notDroppedTables) |-> notDroppedTables[i].id]

\* tables whose operation fails on every attempt: the stuck ones and, when
\* outcomes follow the dependencies, those on or behind a dependency cycle
NeverSucceeding ==
    stuck \cup (IF envMode = "deps"
                THEN InitialTables \ Creatable({}, InitialTables, deps)
                ELSE {})

\* C2: create phase, dependency relation without a cycle, CreateTable fails
\* exactly while a dependency is missing (and CreateDatabase does not fail):
\* restoreSchemaRegular returns success with every table created, whatever
\* the order of the work queue.
C2_AcyclicCreateSucceeds ==
    (/\ phase = "create" /\ sPc = "done"
     /\ envMode = "deps" /\ Acyclic(InitialTables, deps)
     /\ schemaErr # "database")
        => (schemaErr = "nil" /\ done = InitialTables)

\* C3: both loops terminate: a loop makes at most N passes over its work
\* queue for N tables, it returns an error (never success) when some table
\* fails on every attempt, and every run reaches its return.
C3_PassesAndCycle ==
    /\ passes <= totalRetries
    /\ (sPc = "done" /\ phase # "none" /\ NeverSucceeding # {})
          => schemaErr \in {"dependency", "database"}

C3_LoopsTerminate == []C3_PassesAndCycle /\ <>(sPc = "done")

\* C3 witness: a run that used all N passes (N >= 2) and ended with the
\* dependency error because a table failed on every attempt
C3_Witness ==
    /\ sPc = "done" /\ schemaErr = "dependency"
    /\ totalRetries >= 2 /\ passes = totalRetries
    /\ stuck # {}

\* C4: the dependency error is returned only after N passes over the queue
\* have been made for N tables.
C4_BudgetCountedInPasses ==
    (sPc = "done" /\ schemaErr = "dependency") => passes >= totalRetries

AttemptedDrop ==
    tablesForDrop[IF sPc = "done" THEN sIdx ELSE sIdx - 1]

\* C20: in every pass of the drop loop, an attempt for a table without
\* captured DDL in which some candidate drop succeeded issued the candidates
\* in the order table, dictionary, materialized view and none after the
\* first one that succeeded; the table is then not counted as failed (it is
\* not among the tables carried into the next pass, and the loop did not
\* return the dependency error on it); and the statement stored on the
\* caller's entry of the table is that first successful candidate.
C20_FirstSuccessAccepted ==
    lastDrop.firstOk > 0 =>
        /\ lastDrop.issued = lastDrop.firstOk
        /\ sPc = "body"
        /\ AttemptedDrop.id \notin Range(failedInPass)
        /\ callerTables[AttemptedDrop.id].Query =
              PossibleQueries(AttemptedDrop.hasParts)[lastDrop.firstOk]

\* the tables CreateTable was called for so far: those that succeeded, those
\* that failed in the running pass, and from the second pass on the queue
AttemptedCreate ==
    {t \in Tables : okAttempts[t] > 0}
        \cup Range(failedInPass)
        \cup (IF passes >= 2 THEN Range(lastFailed) ELSE {})

\* C21: within one restoreSchemaRegular call CreateDatabase is called at
\* most once per database name over all passes; every table CreateTable was
\* called for has its database created by an earlier CreateDatabase call;
\* and when CreateDatabase fails the call ends at once with the database
\* error, the table in hand never having been attempted.
C21_CreateDatabaseOnce ==
    phase = "create" =>
        /\ \A d \in Databases : dbAttempts[d] <= 1
        /\ \A d \in isDatabaseCreated : dbAttempts[d] = 1
        /\ \A t \in AttemptedCreate : TableDatabase(t) \in isDatabaseCreated
        /\ schemaErr = "database" =>
              /\ sPc = "done"
              /\ tablesForRestore[sIdx] \notin AttemptedCreate
              /\ TableDatabase(tablesForRestore[sIdx]) \notin isDatabaseCreated
              /\ dbAttempts[TableDatabase(tablesForRestore[sIdx])] = 1

\* C21 witness: a create loop that went through a retry pass with both
\* databases created, and ended
C21_Witness ==
    /\ phase = "create" /\ sPc = "done" /\ passes >= 2
    /\ isDatabaseCreated = Databases
    /\ \A d \in Databases : dbAttempts[d] = 1


(***************************************************************************)
(* Names and strings of the data path.  A string is a sequence of          *)
(* characters; database and table names are one character long.            *)
(***************************************************************************)
DbNames == {"a", "b", "c"}

NoName == "-"

\* "<database>.<table>"
QualifiedName(db, tbl) == <<db, ".", tbl>>

\* strings.HasPrefix(s[p-1:], prefix), p counted from 1
HasPrefixAt(s, p, prefix) ==
    /\ p + Len(prefix) - 1 <= Len(s)
    /\ \A i \in 1 .. Len(prefix) : s[p + i - 1] = prefix[i]

\* the destination name the design asks every operation to use: the mapped
\* name, or the source name when it has no entry
Lookup(m, db) == IF db \in DOMAIN m THEN m[db] ELSE db

(***************************************************************************)
(* restoreDataRegular: rewrite of the table pattern, restore.go:528-546    *)
(***************************************************************************)
\* start positions at which (^src.*)|(,src.*) matches s
MatchStarts(s, src) ==
    {p \in 1 .. Len(s) :
        \/ p = 1 /\ HasPrefixAt(s, 1, src)
        \/ s[p] = "," /\ HasPrefixAt(s, p + 1, src)}

\* sourceDbRE.MatchString(tablePattern)
PatternMatches(s, src) == MatchStarts(s, src) # {}

\* start of the leftmost match; .* takes the match to the end of the string,
\* so it is the only one
MatchStart(s, src) ==
    CHOOSE p \in MatchStarts(s, src) : \A q \in MatchStarts(s, src) : p <= q

\* matches[0][1]: the text of the first group, empty when the match was made
\* by the second alternative
FirstGroup(s, src) ==
    IF MatchStart(s, src) = 1 /\ HasPrefixAt(s, 1, src) THEN s ELSE <<>>

\* the substitution text
Substitution(s, src, tgt) ==
    IF HasPrefixAt(FirstGroup(s, src), 1, <<",">>)
    THEN <<",", tgt, ".", "*">>
    ELSE <<tgt, ".", "*">>

\* one iteration of "for sourceDb, targetDb := range RestoreDatabaseMapping"
RewriteOne(s, src, tgt) ==
    IF s # <<>>
    THEN IF PatternMatches(s, <<src>>)
         THEN SubSeq(s, 1, MatchStart(s, <<src>>) - 1)
                  \o Substitution(s, <<src>>, tgt)
         ELSE s \o <<",", tgt, ".", "*">>
    ELSE <<tgt, ".", "*">>

\* the whole loop, the map being ranged over in the order given
RECURSIVE RewritePattern(_, _, _)
RewritePattern(s, order, m) ==
    IF order = <<>> THEN s
    ELSE RewritePattern(RewriteOne(s, Head(order), m[Head(order)]),
                        Tail(order), m)

\* the orders in which a Go map with key set S can be ranged over
Orders(S) ==
    {o \in [1 .. Cardinality(S) -> S] :
        \A i, j \in 1 .. Cardinality(S) : i # j => o[i] # o[j]}

(***************************************************************************)
(* Selection of tables by pattern (getTableListByPatternLocal, GetTables): *)
(* a comma-separated list of globs over "<database>.<table>", the empty    *)
(* pattern selecting everything.                                           *)
(***************************************************************************)
RECURSIVE GlobMatch(_, _)
GlobMatch(pat, name) ==
    IF pat = <<>> THEN name = <<>>
    ELSE IF Head(pat) = "*"
         THEN \E k \in 0 .. Len(name) :
                  GlobMatch(Tail(pat), SubSeq(name, k + 1, Len(name)))
         ELSE /\ name # <<>>
              /\ Head(name) = Head(pat)
              /\ GlobMatch(Tail(pat), Tail(name))

\* strings.Split(s, ",")
SplitByComma(s) ==
    LET cuts == {0, Len(s) + 1} \cup {p \in 1 .. Len(s) : s[p] = ","}
    IN  {SubSeq(s, i + 1, j - 1) :
            <<i, j>> \in {c \in cuts \X cuts :
                              /\ c[1] < c[2]
                              /\ \A k \in cuts : ~(c[1] < k /\ k < c[2])}}

Covers(pattern, db, tbl) ==
    \/ pattern = <<>>
    \/ \E item \in SplitByComma(pattern) : GlobMatch(item, QualifiedName(db, tbl))

\* the entries of list whose table the pattern selects, in order
RECURSIVE SelectByPattern(_, _)
SelectByPattern(list, pattern) ==
    IF list = <<>> THEN <<>>
    ELSE IF Covers(pattern, Head(list).Database, Head(list).Table)
         THEN <<Head(list)>> \o SelectByPattern(Tail(list), pattern)
         ELSE SelectByPattern(Tail(list), pattern)

\* b.ch.GetTables(ctx, tablePattern)
GetTables(live, pattern) == {t \in live : Covers(pattern, t[1], t[2])}


(***************************************************************************)
(* Restore: restoreEmptyDatabase, restore.go:94-102 and 165-190            *)
(***************************************************************************)
Err(kind, names) == [kind |-> kind, names |-> names]

NoErr == Err("none", <<>>)

\* restoreEmptyDatabase that creates the database under its source name
TargetDBUnmapped(m, name) == name

\* targetDB, isMapped = RestoreDatabaseMapping[database.Name]; !isMapped ...
TargetDB(m, name) == IF name \in DOMAIN m THEN m[name] ELSE name

\* one iteration of "for _, database := range backupMetadata.Databases":
\* the information-schema test, ShallSkipDatabase, DROP DATABASE when
\* schemaOnly && dropTable, CREATE DATABASE
RestoreEmptyDatabase ==
    /\ UNCHANGED <<schemaVars, copyVars, moreVars>>
    /\ dPc = "emptydb" /\ dIdx <= Len(manifestDbs)
    /\ LET name == manifestDbs[dIdx]
           targetDB == TargetDB(mapping, name)
       IN  \E skip, dropFirst, dropOk, createOk \in BOOLEAN :
            IF skip
            THEN /\ dIdx' = dIdx + 1
                 /\ dPc' = IF dIdx' > Len(manifestDbs) THEN "done" ELSE dPc
                 /\ dataErr' = IF dIdx' > Len(manifestDbs)
                               THEN Err("nil", <<>>) ELSE dataErr
                 /\ UNCHANGED dbIssued
            ELSE IF (dropFirst /\ ~dropOk) \/ ~createOk
                 THEN /\ dPc' = "done"
                      /\ dataErr' = Err("database", <<targetDB>>)
                      /\ UNCHANGED <<dIdx, dbIssued>>
                 ELSE /\ dbIssued' = [dbIssued EXCEPT ![name] = targetDB]
                      /\ dIdx' = dIdx + 1
                      /\ dPc' = IF dIdx' > Len(manifestDbs) THEN "done" ELSE dPc
                      /\ dataErr' = IF dIdx' > Len(manifestDbs)
                                    THEN Err("nil", <<>>) ELSE dataErr
    /\ UNCHANGED <<mapping, isEmbedded, manifestDbs, backupTables, liveTables,
                   disks, origPattern, tablePattern, dataTables, dDisks,
                   chTables, missingTables, checkedNames, copyCalls,
                   attachCalls, embeddedEntries, restoreResults,
                   embeddedCall>>

(***************************************************************************)
(* RestoreData, restore.go:472-521                                         *)
(***************************************************************************)
\* diskMap[disk.Name] = disk.Path
DiskMap(ds) ==
    [n \in {ds[i].Name : i \in 1 .. Len(ds)} |->
        ds[CHOOSE i \in 1 .. Len(ds) :
              ds[i].Name = n /\ \A j \in i + 1 .. Len(ds) : ds[j].Name # n].Path]

\* diskMap[name], the zero value for a missing key
DiskPath(dm, name) == IF name \in DOMAIN dm THEN dm[name] ELSE ""

\* the call up to the dispatch to restoreDataEmbedded / restoreDataRegular
\* a selection that is never found empty
NoMatchingTablesNever(tables) == FALSE

\* if len(tablesForRestore) == 0 { return fmt.Errorf("no have found schemas ...") }
NoMatchingTables(tables) == Len(tables) = 0

RestoreDataSelect ==
    /\ UNCHANGED <<schemaVars, copyVars, moreVars>>
    /\ dPc = "select"
    /\ \E prepared \in BOOLEAN :
        LET selected == SelectByPattern(backupTables, origPattern)
        IN  IF ~prepared
            THEN /\ dPc' = "done" /\ dataErr' = Err("prepare", <<>>)
                 /\ UNCHANGED dataTables
            ELSE IF NoMatchingTables(selected)
                 THEN /\ dPc' = "done" /\ dataErr' = Err("nomatch", <<>>)
                      /\ UNCHANGED dataTables
                 ELSE /\ dataTables' = selected
                      /\ dPc' = IF isEmbedded THEN "embedded" ELSE "gettables"
                      /\ UNCHANGED dataErr
    /\ UNCHANGED <<mapping, isEmbedded, manifestDbs, backupTables, liveTables,
                   disks, origPattern, tablePattern, dDisks, chTables,
                   missingTables, dIdx, dbIssued, checkedNames, copyCalls,
                   attachCalls, embeddedEntries, restoreResults,
                   embeddedCall>>

(***************************************************************************)
(* restoreDataRegular, restore.go:527-630                                  *)
(***************************************************************************)
\* lines 528-550: the pattern rewrite and b.ch.GetTables
DataGetTables ==
    /\ UNCHANGED <<schemaVars, copyVars, moreVars>>
    /\ dPc = "gettables"
    /\ \E order \in Orders(DOMAIN mapping), ok \in BOOLEAN :
        /\ tablePattern' = IF Cardinality(DOMAIN mapping) > 0
                           THEN RewritePattern(tablePattern, order, mapping)
                           ELSE tablePattern
        /\ IF ok
           THEN /\ chTables' = GetTables(liveTables, tablePattern')
                /\ dPc' = "disks" /\ dIdx' = 1
                /\ UNCHANGED dataErr
           ELSE /\ dPc' = "done" /\ dataErr' = Err("gettables", <<>>)
                /\ UNCHANGED <<chTables, dIdx>>
    /\ UNCHANGED <<mapping, isEmbedded, manifestDbs, backupTables, liveTables,
                   disks, origPattern, dataTables, dDisks, missingTables,
                   dbIssued, checkedNames, copyCalls, attachCalls,
                   embeddedEntries, restoreResults,
                   embeddedCall>>

\* a search of the disk list that never finds the name
DiskFoundNever(ds, name) == FALSE

\* for _, d := range disks { if d.Name == disk { found = true } }
DiskFound(ds, name) == \E i \in 1 .. Len(ds) : ds[i].Name = name

\* "for disk := range t.Parts" of one table, the keys ranged in the order given
RECURSIVE AddDisks(_, _, _)
AddDisks(ds, dm, keys) ==
    IF keys = <<>> THEN ds
    ELSE LET disk == Head(keys)
             newDisk == [Name |-> disk, Path |-> DiskPath(dm, "default"),
                         Type |-> "local"]
         IN  AddDisks(IF disk \notin DOMAIN dm /\ ~DiskFound(ds, disk)
                      THEN Append(ds, newDisk) ELSE ds,
                      dm, Tail(keys))

\* lines 551-572, one table per step
DataAddDisks ==
    /\ UNCHANGED <<schemaVars, copyVars, moreVars>>
    /\ dPc = "disks" /\ dIdx <= Len(dataTables)
    /\ \E keys \in Orders(DOMAIN dataTables[dIdx].Parts) :
          dDisks' = AddDisks(dDisks, DiskMap(disks), keys)
    /\ dIdx' = dIdx + 1
    /\ dPc' = IF dIdx' > Len(dataTables) THEN "check" ELSE dPc
    /\ UNCHANGED <<mapping, isEmbedded, manifestDbs, backupTables, liveTables,
                   disks, origPattern, tablePattern, dataTables, chTables,
                   missingTables, dataErr, dbIssued, checkedNames, copyCalls,
                   attachCalls, embeddedEntries, restoreResults,
                   embeddedCall>>

\* dstDatabase of the missing-table check and of the placement loop
DstDatabase(m, db) ==
    IF Cardinality(DOMAIN m) > 0 /\ db \in DOMAIN m THEN m[db] ELSE db

\* a check that stops at the first missing table
RECURSIVE MissingTablesFirstOnly(_, _, _)
MissingTablesFirstOnly(tables, m, ch) ==
    IF tables = <<>> THEN <<>>
    ELSE LET dstName == <<DstDatabase(m, Head(tables).Database), Head(tables).Table>>
         IN  IF dstName \in ch THEN MissingTablesFirstOnly(Tail(tables), m, ch)
             ELSE <<dstName>>

\* lines 581-599: missingTables
RECURSIVE MissingTables(_, _, _)
MissingTables(tables, m, ch) ==
    IF tables = <<>> THEN <<>>
    ELSE LET dstName == <<DstDatabase(m, Head(tables).Database), Head(tables).Table>>
         IN  (IF dstName \in ch THEN <<>> ELSE <<dstName>>)
                 \o MissingTables(Tail(tables), m, ch)

\* lines 573-602
DataCheckMissing ==
    /\ UNCHANGED <<schemaVars, copyVars, moreVars>>
    /\ dPc = "check"
    /\ missingTables' = MissingTables(dataTables, mapping, chTables)
    /\ checkedNames' = [i \in 1 .. Len(dataTables) |->
                          <<DstDatabase(mapping, dataTables[i].Database),
                            dataTables[i].Table>>]
    /\ IF Len(missingTables') > 0
       THEN /\ dPc' = "done" /\ dataErr' = Err("missing", missingTables')
            /\ UNCHANGED dIdx
       ELSE /\ dPc' = "place" /\ dIdx' = 1
            /\ UNCHANGED dataErr
    /\ UNCHANGED <<mapping, isEmbedded, manifestDbs, backupTables, liveTables,
                   disks, origPattern, tablePattern, dataTables, dDisks,
                   chTables, dbIssued, copyCalls, attachCalls, embeddedEntries, restoreResults,
                   embeddedCall>>

\* CopyDataToDetached, filesystemhelper.go:124-129: the disks of the list
\* whose parts of the table are placed
PlacedDisks(table, ds) ==
    {ds[i].Name : i \in {j \in 1 .. Len(ds) :
                          /\ ds[j].Name \in DOMAIN table.Parts
                          /\ table.Parts[ds[j].Name] > 0}}

\* an attach failure that is only remembered
PlaceOutcomeKeepGoing(copyOk, attachOk) ==
    IF ~copyOk THEN "copy" ELSE "none"

\* lines 620-626: the error one iteration of the placement loop returns
PlaceOutcome(copyOk, attachOk) ==
    IF ~copyOk THEN "copy" ELSE IF ~attachOk THEN "attach" ELSE "none"

\* tablesForRestore[i].Database left as captured
AttachDatabaseUnmapped(m, db) == db

\* line 610: tablesForRestore[i].Database = targetDB when mapped
AttachDatabase(m, db) ==
    IF Cardinality(DOMAIN m) > 0 /\ db \in DOMAIN m THEN m[db] ELSE db

\* lines 604-628, one table per step
DataPlace ==
    /\ UNCHANGED <<schemaVars, copyVars, moreVars>>
    /\ dPc = "place" /\ dIdx <= Len(dataTables)
    /\ LET table == dataTables[dIdx]
           dstDatabase == DstDatabase(mapping, table.Database)
           passed == [dataTables EXCEPT
                         ![dIdx].Database = AttachDatabase(mapping, table.Database)]
       IN  /\ dataTables' = passed
           /\ IF <<dstDatabase, table.Table>> \notin chTables
              THEN /\ dPc' = "done"
                   /\ dataErr' = Err("notfound", <<<<dstDatabase, table.Table>>>>)
                   /\ UNCHANGED <<dIdx, copyCalls, attachCalls>>
              ELSE \E copyOk, attachOk \in BOOLEAN :
                    LET outcome == PlaceOutcome(copyOk, attachOk)
                    IN  /\ copyCalls' = Append(copyCalls,
                               [Database |-> table.Database, Table |-> table.Table,
                                placed |-> PlacedDisks(table, dDisks),
                                ok |-> copyOk])
                        /\ attachCalls' =
                               IF copyOk
                               THEN Append(attachCalls,
                                      [Database |-> passed[dIdx].Database,
                                       Table |-> passed[dIdx].Table,
                                       disks |-> {dDisks[i].Name : i \in 1 .. Len(dDisks)},
                                       ok |-> attachOk])
                               ELSE attachCalls
                        /\ IF outcome = "copy"
                           THEN /\ dPc' = "done"
                                /\ dataErr' = Err("copy", <<<<table.Database, table.Table>>>>)
                                /\ UNCHANGED dIdx
                           ELSE IF outcome = "attach"
                           THEN /\ dPc' = "done"
                                /\ dataErr' = Err("attach",
                                       <<<<passed[dIdx].Database, passed[dIdx].Table>>>>)
                                /\ UNCHANGED dIdx
                           ELSE /\ dIdx' = dIdx + 1
                                /\ dPc' = IF dIdx' > Len(dataTables) THEN "done" ELSE dPc
                                /\ dataErr' = IF dIdx' > Len(dataTables)
                                              THEN Err("nil", <<>>) ELSE dataErr
    /\ UNCHANGED <<mapping, isEmbedded, manifestDbs, backupTables, liveTables,
                   disks, origPattern, tablePattern, dDisks, chTables,
                   missingTables, dbIssued, checkedNames, embeddedEntries, restoreResults,
                   embeddedCall>>

(***************************************************************************)
(* restoreEmbedded, restore.go:632-673                                     *)
(***************************************************************************)
\* lines 636-658: the entry of one table with a captured query: the name in
\* the backup and the alias, NoName when none is written
EmbeddedEntry(m, t) ==
    [Database |-> t.Database, Table |-> t.Table,
     alias |-> IF t.Database \in DOMAIN m THEN m[t.Database] ELSE NoName]

RECURSIVE EmbeddedEntries(_, _)
EmbeddedEntries(m, tables) ==
    IF tables = <<>> THEN <<>>
    ELSE (IF Head(tables).Query # "" THEN <<EmbeddedEntry(m, Head(tables))>> ELSE <<>>)
             \o EmbeddedEntries(m, Tail(tables))

\* strings.Contains(t.Query, " DICTIONARY ") on the captured queries of the
\* model
ContainsDictionary(query) == query = "CREATE DICTIONARY"

\* strings.Contains(t.Query, " VIEW ")
ContainsView(query) == query = "CREATE MATERIALIZED VIEW"

\* the ", " between two entries
Separator == [tok |-> "sep"]

\* lines 638-654: the text written for table t: the kind written at line
\* 643/645, the names, and the PARTITIONS list, <<>> when none is written
EntryToken(m, t, partitionList) ==
    LET written == IF ContainsDictionary(t.Query) THEN "DICTIONARY" ELSE "TABLE"
        kind == IF ContainsView(t.Query) THEN "VIEW" ELSE written
        e == EmbeddedEntry(m, t)
    IN  [tok |-> "entry", kind |-> written, Database |-> e.Database,
         Table |-> e.Table, alias |-> e.alias,
         partitions |-> IF kind = "TABLE" /\ Len(partitionList) > 0
                        THEN partitionList ELSE <<>>]

\* lines 634-659: tablesSQL after the entries of tables[i ..] were appended
RECURSIVE TablesSQL(_, _, _, _)
TablesSQL(m, tables, partitionList, i) ==
    IF i > Len(tables) THEN <<>>
    ELSE (IF tables[i].Query # ""
          THEN <<EntryToken(m, tables[i], partitionList)>>
                   \o (IF i < Len(tables) THEN <<Separator>> ELSE <<>>)
          ELSE <<>>)
             \o TablesSQL(m, tables, partitionList, i + 1)

\* the partitions argument: nil on the schema path, the resolved list on the
\* data path
EmbeddedPartitions == {<<>>, <<"p1">>, <<"p1", "p2">>}

\* what b.ch.Select may give: an error, or the rows of system.backups read
\* into restoreResults, by their Status
EmbeddedAnswers ==
    {[asked |-> TRUE, err |-> TRUE, rows |-> <<>>]}
    \cup {[asked |-> TRUE, err |-> FALSE, rows |-> rows] :
            rows \in UNION {[1 .. n -> {"RESTORED", "RESTORING", "RESTORE_FAILED"}] :
                               n \in 0 .. 2}}

\* the result is accepted as soon as a row was read
EmbeddedErrStatusIgnored(answer) ==
    IF answer.err THEN Err("restore error", <<>>)
    ELSE IF Len(answer.rows) = 0 THEN Err("restore wrong result", <<>>)
    ELSE Err("nil", <<>>)

\* lines 666-672: the error restoreEmbedded returns
EmbeddedErr(answer) ==
    IF answer.err THEN Err("restore error", <<>>)
    ELSE IF Len(answer.rows) = 0 \/ answer.rows[1] # "RESTORED"
    THEN Err("restore wrong result", <<>>)
    ELSE Err("nil", <<>>)

\* the statement is built and submitted; the engine answers
DataEmbedded ==
    /\ UNCHANGED <<schemaVars, copyVars, moreVars>>
    /\ dPc = "embedded"
    /\ embeddedEntries' = EmbeddedEntries(mapping, dataTables)
    /\ \E answer \in EmbeddedAnswers :
          /\ restoreResults' = answer
          /\ dataErr' = EmbeddedErr(answer)
    /\ \E partitionList \in EmbeddedPartitions :
          embeddedCall' = [partitions |-> partitionList,
                           tablesSQL |-> TablesSQL(mapping, dataTables,
                                                   partitionList, 1)]
    /\ dPc' = "done"
    /\ UNCHANGED <<mapping, isEmbedded, manifestDbs, backupTables, liveTables,
                   disks, origPattern, tablePattern, dataTables, dDisks,
                   chTables, missingTables, dIdx, dbIssued, checkedNames,
                   copyCalls, attachCalls>>

(***************************************************************************)
(* Specification of the data path: one behaviour is one call, of the       *)
(* database recreation of Restore or of RestoreData, on one backup, one    *)
(* mapping and one live engine.                                            *)
(***************************************************************************)
TableNames == {"t", "u"}

\* the database mappings prepareRestoreDatabaseMapping can register
Mappings ==
    UNION {[S -> DbNames] : S \in {D \in SUBSET DbNames : Cardinality(D) <= MaxRules}}

\* a table pattern that selects no table of the backup
NoSuchPattern == <<"b", ".", "*">>

\* table patterns given to the call
DataPatterns ==
    {<<>>, <<"*">>, <<"a", ".", "*">>, <<"a", ".", "t">>,
     <<"a", ".", "t", ",", "c", ".", "t">>,
     <<"c", ".", "t", ",", "a", ".", "t">>, NoSuchPattern}

DefaultDisk == [Name |-> "default", Path |-> "/d", Type |-> "local"]

ColdDisk == [Name |-> "cold", Path |-> "/c", Type |-> "local"]

\* the disks the parts of the i-th captured table lie on, with the number of
\* parts: everything on the default disk, or spread over default, cold, hot
PartsOf(i, layout) ==
    IF layout = "default" THEN [d \in {"default"} |-> 1]
    ELSE IF i % 3 = 1 THEN [d \in {"default", "cold"} |-> 1]
    ELSE IF i % 3 = 2 THEN [d \in {"cold"} |-> 1]
    ELSE [d \in {"cold", "hot"} |-> IF d = "hot" THEN 0 ELSE 1]

\* the i-th captured table: a.t, c.t, a.u, c.u, ...; in the spread layout the
\* second one has no captured query
BackupTable(i, layout) ==
    [Database |-> IF i % 2 = 1 THEN "a" ELSE "c",
     Table |-> IF ((i - 1) \div 2) % 2 = 0 THEN "t" ELSE "u",
     Query |-> IF layout = "default" THEN "CREATE TABLE"
               ELSE IF i % 3 = 1 THEN "CREATE MATERIALIZED VIEW"
               ELSE IF i % 3 = 2 THEN ""
               ELSE "CREATE DICTIONARY",
     Parts |-> PartsOf(i, layout)]

\* live engines: every destination table exists but some of a.t, b.t, c.t
LiveChoices ==
    {(DbNames \X TableNames) \ A :
        A \in SUBSET {<<"a", "t">>, <<"b", "t">>, <<"c", "t">>}}

InitData ==
    /\ SchemaIdle /\ CopyIdle /\ MoreIdle
    /\ mapping \in Mappings
    /\ dPc \in {"emptydb", "select"}
    /\ isEmbedded \in IF dPc = "select" THEN BOOLEAN ELSE {FALSE}
    /\ manifestDbs \in IF dPc = "emptydb"
                       THEN {<<"a">>, <<"a", "c">>, <<"c", "b">>} ELSE {<<>>}
    /\ \E n \in 1 .. MaxDataTables, layout \in {"default", "spread"} :
          backupTables = IF dPc = "select"
                         THEN [i \in 1 .. n |-> BackupTable(i, layout)] ELSE <<>>
    /\ liveTables \in IF dPc = "select" /\ ~isEmbedded THEN LiveChoices ELSE {{}}
    /\ disks \in IF dPc = "select" /\ ~isEmbedded
                 THEN {<<DefaultDisk>>, <<DefaultDisk, ColdDisk>>}
                 ELSE {<<DefaultDisk>>}
    /\ origPattern \in IF dPc = "select" /\ ~isEmbedded THEN DataPatterns
                       ELSE IF dPc = "select" THEN {<<>>, NoSuchPattern}
                       ELSE {<<>>}
    /\ tablePattern = origPattern
    /\ dataTables = <<>> /\ dDisks = disks /\ chTables = {}
    /\ missingTables = <<>> /\ dIdx = 1 /\ dataErr = NoErr
    /\ dbIssued = [d \in DbNames |-> NoName]
    /\ checkedNames = <<>> /\ copyCalls = <<>> /\ attachCalls = <<>>
    /\ embeddedEntries = <<>>
    /\ restoreResults = [asked |-> FALSE, err |-> FALSE, rows |-> <<>>]
    /\ embeddedCall = NoEmbeddedCall

NextData ==
    \/ RestoreEmptyDatabase
    \/ RestoreDataSelect
    \/ DataGetTables
    \/ DataAddDisks
    \/ DataCheckMissing
    \/ DataPlace
    \/ DataEmbedded

SpecData == InitData /\ [][NextData]_vars

(***************************************************************************)
(* Properties of the data path.                                            *)
(***************************************************************************)
\* the selected tables as captured, under their source database
Selected == SelectByPattern(backupTables, origPattern)

DiskNamesOf(ds) == {ds[i].Name : i \in 1 .. Len(ds)}

\* every disk key of the parts maps of the selected tables
PartsDisks == UNION {DOMAIN Selected[k].Parts : k \in 1 .. Len(Selected)}

\* the destination of the k-th selected table by the design's lookup
Destination(k) == <<Lookup(mapping, Selected[k].Database), Selected[k].Table>>

\* the destinations that GetTables did not return, in list order
RECURSIVE MissingFrom(_)
MissingFrom(k) ==
    IF k > Len(Selected) THEN <<>>
    ELSE (IF Destination(k) \in chTables THEN <<>> ELSE <<Destination(k)>>)
             \o MissingFrom(k + 1)

\* C1: with source database S, the database restoreEmptyDatabase creates,
\* the database of the missing-table check, the database of the table given
\* to AttachPartitions and the destination restoreEmbedded writes are all
\* lookup(S); the table given to CopyDataToDetached (the shadow source path)
\* keeps S.
C1_MappedNameConsistent ==
    /\ \A d \in DOMAIN dbIssued :
          dbIssued[d] # NoName => dbIssued[d] = Lookup(mapping, d)
    /\ \A k \in 1 .. Len(checkedNames) : checkedNames[k] = Destination(k)
    /\ \A k \in 1 .. Len(attachCalls) :
          <<attachCalls[k].Database, attachCalls[k].Table>> = Destination(k)
    /\ \A k \in 1 .. Len(copyCalls) :
          /\ copyCalls[k].Database = Selected[k].Database
          /\ copyCalls[k].Table = Selected[k].Table
    /\ \A k \in 1 .. Len(embeddedEntries) :
          LET e == embeddedEntries[k]
          IN  (IF e.alias = NoName THEN e.Database ELSE e.alias)
                  = Lookup(mapping, e.Database)

\* C1 witness: a data restore that attached a table of a renamed database
C1_Witness ==
    /\ dPc = "done" /\ dataErr.kind = "nil"
    /\ \E k \in 1 .. Len(attachCalls) :
          /\ Selected[k].Database \in DOMAIN mapping
          /\ attachCalls[k].Database # Selected[k].Database

\* C6: the destination of every selected table is validated before anything
\* is placed: when some are not among the live tables the call returns one
\* error that names all of them, and no CopyDataToDetached or
\* AttachPartitions call has been made.
C6_MissingTablesBatched ==
    /\ (copyCalls # <<>> \/ attachCalls # <<>>)
          => (checkedNames # <<>> /\ MissingFrom(1) = <<>>)
    /\ (checkedNames # <<>> /\ MissingFrom(1) # <<>>)
          => /\ dPc = "done"
             /\ dataErr = Err("missing", MissingFrom(1))
             /\ copyCalls = <<>> /\ attachCalls = <<>>

\* C6 witness: the error names two missing tables
C6_Witness ==
    dPc = "done" /\ dataErr.kind = "missing" /\ Len(dataErr.names) >= 2

\* C7: with a non-empty mapping the pattern given to GetTables covers the
\* destination of every selected table, so a selected table whose
\* destination is live is not reported missing.
C7_LiveDestinationNotMissing ==
    (Cardinality(DOMAIN mapping) > 0 /\ checkedNames # <<>>)
        => \A k \in 1 .. Len(Selected) :
              Destination(k) \in liveTables
                  => /\ Covers(tablePattern, Destination(k)[1], Destination(k)[2])
                     /\ Destination(k) \notin Range(missingTables)

\* C9: a disk of the backup that the engine does not list is no error and
\* loses no part: the disk list keeps the engine's disks, gets one entry per
\* unknown disk name, with the default disk's path, and no name twice; from
\* the end of that loop on every disk key of every selected table is in the
\* list, and CopyDataToDetached and AttachPartitions get that list.
C9_UnknownDisksSubstituted ==
    /\ \A i, j \in 1 .. Len(dDisks) : i # j => dDisks[i].Name # dDisks[j].Name
    /\ Len(dDisks) >= Len(disks) /\ SubSeq(dDisks, 1, Len(disks)) = disks
    /\ \A i \in Len(disks) + 1 .. Len(dDisks) :
          /\ dDisks[i].Name \in PartsDisks \ DiskNamesOf(disks)
          /\ dDisks[i].Path = DefaultDisk.Path
    /\ (dPc \in {"check", "place"} \/ checkedNames # <<>>)
          => /\ DiskNamesOf(dDisks) = DiskNamesOf(disks) \cup PartsDisks
             /\ dataErr.kind \notin {"none", "nil"}
                   => dataErr.kind \in {"missing", "notfound", "copy", "attach"}
    /\ \A k \in 1 .. Len(copyCalls) :
          copyCalls[k].placed =
              {d \in DOMAIN Selected[k].Parts : Selected[k].Parts[d] > 0}
    /\ \A k \in 1 .. Len(attachCalls) :
          DOMAIN Selected[k].Parts \subseteq attachCalls[k].disks

\* C9 witness: two tables with parts on a disk the engine does not list were
\* placed and attached
C9_Witness ==
    /\ dPc = "done" /\ dataErr.kind = "nil"
    /\ "cold" \notin DiskNamesOf(disks)
    /\ Cardinality({k \in 1 .. Len(copyCalls) : "cold" \in copyCalls[k].placed}) >= 2

\* C10: an AttachPartitions failure for one table does not abort the tables
\* after it: placement has been attempted for every selected table when the
\* call returns the attach error.
C10_AttachFailureDoesNotAbort ==
    (dPc = "done" /\ \E k \in 1 .. Len(attachCalls) : ~attachCalls[k].ok)
        => (Len(copyCalls) = Len(Selected) /\ dataErr.kind = "attach")

\* C10, amended: an AttachPartitions failure for one table ends the call at
\* once: nothing is placed or attached for a later table, the error returned
\* is that failure with the table's identity, and success is returned only
\* when every selected table was placed and attached without error.
C10_AttachFailureAborts ==
    /\ \A k \in 1 .. Len(attachCalls) :
          ~attachCalls[k].ok
              => /\ k = Len(attachCalls) /\ Len(copyCalls) = k
                 /\ dPc = "done"
                 /\ dataErr = Err("attach", <<<<attachCalls[k].Database,
                                               attachCalls[k].Table>>>>)
    /\ (dPc = "done" /\ dataErr.kind = "nil" /\ Selected # <<>> /\ ~isEmbedded)
          => /\ Len(attachCalls) = Len(Selected)
             /\ \A k \in 1 .. Len(attachCalls) : attachCalls[k].ok

\* C10 witness: the attach of the first of several tables failed
C10_Witness ==
    /\ dPc = "done" /\ dataErr.kind = "attach"
    /\ Len(attachCalls) = 1 /\ Len(Selected) >= 2


\* C18: restoreEmbedded returns nil iff the query was executed without error
\* and the status the engine reports (Status of the first row read) is
\* "RESTORED"; a query error, no row or another status is an error.
C18_EmbeddedSuccessIffRestored ==
    restoreResults.asked =>
        /\ dPc = "done"
        /\ (dataErr.kind = "nil")
              <=> (/\ ~restoreResults.err
                   /\ Len(restoreResults.rows) > 0
                   /\ restoreResults.rows[1] = "RESTORED")
        /\ restoreResults.err => dataErr.kind = "restore error"
        /\ dataErr.kind \in {"nil", "restore error", "restore wrong result"}

\* the engine reported RESTORED and the call returned nil
C18_Witness ==
    /\ restoreResults.asked /\ dataErr.kind = "nil"
    /\ restoreResults.rows = <<"RESTORED">> /\ Len(embeddedEntries) >= 1

\* C22: the statement restoreEmbedded submitted lists every selected table
\* exactly once and in order: its tokens are the entries of the selected
\* tables with one separator between consecutive entries and none before the
\* first or after the last, whatever tables have an empty captured query;
\* the entry of a table of a mapped database carries the destination alias;
\* and a PARTITIONS list is written only on entries of kind TABLE and only
\* when partitions were given.
C22_StatementWellFormed ==
    restoreResults.asked =>
        LET sql == embeddedCall.tablesSQL
            n == Len(dataTables)
        IN  /\ Len(sql) = 2 * n - 1
            /\ \A k \in 1 .. Len(sql) :
                  sql[k].tok = IF k % 2 = 0 THEN "sep" ELSE "entry"
            /\ \A i \in 1 .. n :
                  LET e == sql[2 * i - 1]
                  IN  /\ e.Database = dataTables[i].Database
                      /\ e.Table = dataTables[i].Table
                      /\ (IF e.alias = NoName THEN e.Database ELSE e.alias)
                             = Lookup(mapping, e.Database)
                      /\ e.partitions # <<>> =>
                            /\ e.kind = "TABLE"
                            /\ e.partitions = embeddedCall.partitions

(***************************************************************************)
(* CopyDataToDetached on a file system.                                    *)
(*                                                                         *)
(* A destination path is "absent", a directory ("dir"), a hard link to the *)
(* backup file it mirrors ("link") or some other file ("foreign").  The    *)
(* data path of the disk (the parent of detachedParentDir) is a directory. *)
(* Calls of the os package answer as the file system stands: os.Chown of   *)
(* an existing path by the super-user succeeds.                            *)
(***************************************************************************)
NodeKinds == {"absent", "dir", "link", "foreign"}

IsFile(kind) == kind \in {"link", "foreign"}

Parent(p) ==
    IF p[2] = "d/g" THEN <<p[1], "d">>
    ELSE IF p[2] \in {"d", "f"} THEN <<p[1], ".">>
    ELSE DetachedParent

\* the directories leading to p, outermost first, and p itself
RECURSIVE Chain(_)
Chain(p) == IF p = DetachedParent THEN <<p>> ELSE Append(Chain(Parent(p)), p)

\* os.Stat(p): "ENOTDIR" | "ENOENT" | "dir" | "file"
Stat(fs, p) ==
    LET chain == Chain(p)
    IN  IF \E i \in 1 .. Len(chain) - 1 : IsFile(fs[chain[i]]) THEN "ENOTDIR"
        ELSE IF \E i \in 1 .. Len(chain) : fs[chain[i]] = "absent" THEN "ENOENT"
        ELSE IF fs[p] = "dir" THEN "dir" ELSE "file"

\* os.MkdirAll(p, 0750): every missing directory of the chain is made
OsMkdirAll(fs, p) ==
    LET chain == Chain(p)
    IN  IF \E i \in 1 .. Len(chain) : IsFile(fs[chain[i]])
        THEN [fs |-> fs, err |-> "ENOTDIR"]
        ELSE [fs |-> [q \in DOMAIN fs |->
                         IF q \in Range(chain) THEN "dir" ELSE fs[q]],
              err |-> "nil"]

\* os.Link(source, p)
OsLink(fs, p) ==
    IF Stat(fs, Parent(p)) # "dir"
    THEN [fs |-> fs, err |-> IF Stat(fs, Parent(p)) = "ENOENT"
                             THEN "ENOENT" ELSE "ENOTDIR"]
    ELSE IF fs[p] # "absent" THEN [fs |-> fs, err |-> "EEXIST"]
    ELSE [fs |-> [fs EXCEPT ![p] = "link"], err |-> "nil"]

\* Chown, with cs = [uid, lock] the cache and the mutex: "nil", "err" (the
\* lookup failed: the function returns with the mutex held) or "blocked"
\* (the mutex is held: Lock never returns)
Chown(cs) ==
    IF ~privileged THEN [cs |-> cs, res |-> "nil"]
    ELSE IF cs.lock THEN [cs |-> cs, res |-> "blocked"]
    ELSE IF ~cs.uid
    THEN IF lookupWorks THEN [cs |-> [uid |-> TRUE, lock |-> FALSE], res |-> "nil"]
         ELSE [cs |-> [uid |-> FALSE, lock |-> TRUE], res |-> "err"]
    ELSE [cs |-> cs, res |-> "nil"]

Mkdir(fs, cs, p) ==
    LET m == OsMkdirAll(fs, p)
        c == Chown(cs)
    IN  IF m.err # "nil" THEN [fs |-> fs, cs |-> cs, res |-> m.err]
        ELSE [fs |-> m.fs, cs |-> c.cs, res |-> c.res]

RECURSIVE MkdirAll(_, _, _)
MkdirAll(fs, cs, p) ==
    IF Stat(fs, p) = "dir" THEN [fs |-> fs, cs |-> cs, res |-> "nil"]
    ELSE IF Stat(fs, p) = "file" THEN [fs |-> fs, cs |-> cs, res |-> "ENOTDIR"]
    ELSE LET up == IF p = DetachedParent
                   THEN [fs |-> fs, cs |-> cs, res |-> "nil"]
                   ELSE MkdirAll(fs, cs, Parent(p))
             m == Mkdir(up.fs, up.cs, p)
         IN  IF up.res # "nil" THEN up
             ELSE IF m.res \in {"nil", "blocked"} THEN m
             ELSE IF m.fs[p] = "dir" THEN [m EXCEPT !.res = "nil"]
             ELSE m

\* partPath: the path with the disk name, else the legacy path
PartPath == IF srcAt = "disk" THEN "disk" ELSE "legacy"

\* kind of the backup entry rel below partPath: "none" | "dir" | "file" |
\* "other" (not a directory and not a regular file)
SourceKind(rel) ==
    IF PartPath # srcAt THEN "none"
    ELSE IF rel = "." THEN "dir"
    ELSE srcTree[rel]

\* the entries filepath.Walk(partPath) calls back for, in lexical order; a
\* root that is not there is called back once, with the error
WalkList ==
    <<".">>
    \o (IF SourceKind("d") = "dir"
        THEN <<"d">> \o (IF SourceKind("d/g") # "none" THEN <<"d/g">> ELSE <<>>)
        ELSE <<>>)
    \o (IF SourceKind("f") # "none" THEN <<"f">> ELSE <<>>)

\* the error of os.Link that makes the callback fail, "exists" reported too
LinkFailsOnExists(err) == err # "nil"

\* the error of os.Link that makes the callback fail
LinkFails(err) == err \notin {"nil", "EEXIST"}

\* what the Walk callback does for the entry rel of part
WalkCallback(fs, cs, part, rel) ==
    LET p == <<part, rel>>
        l == OsLink(fs, p)
        c == Chown(cs)
    IN  CASE SourceKind(rel) = "none" ->
                [fs |-> fs, cs |-> cs, res |-> "source"]
          [] SourceKind(rel) = "dir" -> Mkdir(fs, cs, p)
          [] SourceKind(rel) = "other" -> [fs |-> fs, cs |-> cs, res |-> "nil"]
          [] SourceKind(rel) = "file" ->
                IF LinkFails(l.err) THEN [fs |-> fs, cs |-> cs, res |-> l.err]
                ELSE [fs |-> l.fs, cs |-> c.cs, res |-> c.res]

\* the part loop up to the Walk call: the directory of the part
CopyBeginPart ==
    /\ cPc = "begin"
    /\ LET detachedPath == <<cPart, ".">>
           st == Stat(dst, detachedPath)
           mk == MkdirAll(dst, [uid |-> uid, lock |-> chownLock], detachedPath)
       IN  CASE st = "ENOENT" ->
                   /\ dst' = mk.fs /\ uid' = mk.cs.uid /\ chownLock' = mk.cs.lock
                   /\ cPc' = IF mk.res = "blocked" THEN "blocked" ELSE "walk"
                   /\ cWalk' = IF mk.res = "blocked" THEN <<>> ELSE WalkList
                   /\ UNCHANGED copyErr
             [] st = "ENOTDIR" ->
                   /\ cPc' = "done" /\ copyErr' = "stat"
                   /\ UNCHANGED <<dst, uid, chownLock, cWalk>>
             [] st = "file" ->
                   /\ cPc' = "done" /\ copyErr' = "should be directory or absent"
                   /\ UNCHANGED <<dst, uid, chownLock, cWalk>>
             [] st = "dir" ->
                   /\ cPc' = "walk" /\ cWalk' = WalkList
                   /\ UNCHANGED <<dst, uid, chownLock, copyErr>>
    /\ UNCHANGED <<cRun, cPart, nParts, srcAt, srcTree, walkCause, privileged,
                   lookupWorks, dstAfterFirst, existsSwallowed>>
    /\ UNCHANGED <<schemaVars, dataVars, moreVars>>

\* one callback of filepath.Walk; after the last one the part loop goes on
\* or the call returns
CopyWalkEntry ==
    /\ cPc = "walk"
    /\ LET rel == Head(cWalk)
           r == WalkCallback(dst, [uid |-> uid, lock |-> chownLock], cPart, rel)
           last == Len(cWalk) = 1
       IN  /\ dst' = r.fs /\ uid' = r.cs.uid /\ chownLock' = r.cs.lock
           /\ existsSwallowed' =
                 (existsSwallowed
                    \/ (SourceKind(rel) = "file"
                          /\ OsLink(dst, <<cPart, rel>>).err = "EEXIST"
                          /\ r.res = "nil"))
           /\ CASE r.res = "blocked" ->
                      /\ cPc' = "blocked" /\ cWalk' = <<>>
                      /\ UNCHANGED <<cPart, copyErr, walkCause, dstAfterFirst>>
                [] r.res \notin {"nil", "blocked"} ->
                      /\ cPc' = "done" /\ cWalk' = <<>>
                      /\ copyErr' = "walk" /\ walkCause' = r.res
                      /\ UNCHANGED <<cPart, dstAfterFirst>>
                [] r.res = "nil" /\ ~last ->
                      /\ cWalk' = Tail(cWalk)
                      /\ UNCHANGED <<cPc, cPart, copyErr, walkCause, dstAfterFirst>>
                [] r.res = "nil" /\ last /\ cPart < nParts ->
                      /\ cPc' = "begin" /\ cPart' = cPart + 1 /\ cWalk' = <<>>
                      /\ UNCHANGED <<copyErr, walkCause, dstAfterFirst>>
                [] r.res = "nil" /\ last /\ cPart >= nParts ->
                      /\ cPc' = "done" /\ copyErr' = "nil" /\ cWalk' = <<>>
                      /\ dstAfterFirst' = IF cRun = 1 THEN r.fs ELSE dstAfterFirst
                      /\ UNCHANGED <<cPart, walkCause>>
    /\ UNCHANGED <<cRun, nParts, srcAt, srcTree, privileged, lookupWorks>>
    /\ UNCHANGED <<schemaVars, dataVars, moreVars>>

\* the data restore is run again: CopyDataToDetached is called for the same
\* backup table, disks and data paths
CopyAgain ==
    /\ cPc = "done" /\ copyErr = "nil" /\ cRun < MaxRuns
    /\ cRun' = cRun + 1 /\ cPc' = "begin" /\ cPart' = 1
    /\ copyErr' = "none" /\ existsSwallowed' = FALSE
    /\ UNCHANGED <<cWalk, nParts, srcAt, srcTree, dst, walkCause, privileged,
                   lookupWorks, uid, chownLock, dstAfterFirst>>
    /\ UNCHANGED <<schemaVars, dataVars, moreVars>>

\* contents of a part directory of the backup
SourceTrees ==
    {t \in [Rels -> {"none", "dir", "file", "other"}] :
        /\ t["."] = "dir"
        /\ t["d"] \in {"none", "dir"}
        /\ t["d/g"] \in {"none", "file"}
        /\ t["d"] = "none" => t["d/g"] = "none"
        /\ t["f"] \in {"none", "file", "other"}}

\* what is at the destination before the first call: the same for every part;
\* a path is there only below directories, and a hard link to a backup file
\* only where the backup has that file
DestShapes(tree) ==
    LET RelParent(r) == IF r = "d/g" THEN "d" ELSE "."
        shapes == {sh \in [Rels -> NodeKinds] :
                      /\ sh["."] # "link"
                      /\ \A r \in Rels :
                            /\ (r # "." /\ sh[r] # "absent") => sh[RelParent(r)] = "dir"
                            /\ sh[r] = "link" => tree[r] = "file"}
        Tops(sh) == IF sh["."] # "absent" THEN {"dir"}
                    ELSE {"absent", "dir", "foreign"}
    IN  UNION {{[p \in DestPaths |-> IF p = DetachedParent THEN top ELSE sh[p[2]]] :
                   top \in Tops(sh)} : sh \in shapes}

InitCopy ==
    /\ SchemaIdle /\ DataIdle /\ MoreIdle
    /\ cPc = "begin" /\ cRun = 1 /\ cPart = 1 /\ cWalk = <<>>
    /\ nParts \in 1 .. MaxParts
    /\ srcAt \in {"disk", "legacy", "none"}
    /\ srcTree \in SourceTrees
    /\ srcAt = "none" => srcTree = [r \in Rels |-> IF r = "." THEN "dir" ELSE "none"]
    /\ dst \in DestShapes(srcTree)
    /\ copyErr = "none" /\ walkCause = "none"
    /\ privileged \in BOOLEAN
    /\ lookupWorks \in IF privileged THEN BOOLEAN ELSE {TRUE}
    /\ uid = FALSE /\ chownLock = FALSE
    /\ dstAfterFirst = dst /\ existsSwallowed = FALSE

NextCopy ==
    \/ CopyBeginPart
    \/ CopyWalkEntry
    \/ CopyAgain

SpecCopy == InitCopy /\ [][NextCopy]_vars

(***************************************************************************)
(* Properties of the placement.                                            *)
(***************************************************************************)
\* C8: once a call of CopyDataToDetached has returned nil, a further call for
\* the same backup and table never changes a destination path, never blocks
\* and returns nil; and no call reports the "exists" answer of a link attempt
\* as its error.
C8_SecondRunIdempotent ==
    /\ walkCause # "EEXIST"
    /\ cRun >= 2 =>
          /\ dst = dstAfterFirst
          /\ cPc # "blocked"
          /\ copyErr \in {"none", "nil"}

\* a second call has returned; it met links of the first call and a mirrored
\* subdirectory
C8_Witness ==
    /\ cRun = 2 /\ cPc = "done" /\ copyErr = "nil" /\ existsSwallowed
    /\ dst[<<1, "d">>] = "dir" /\ dst[<<1, "d/g">>] = "link"
    /\ dst[<<1, "f">>] = "link"

\* C26: when CopyDataToDetached has returned nil, below detached/<part> of
\* every part each directory of the part's source directory is a directory,
\* each regular file is a hard link to the source file, whatever was at that
\* path before the call, and nothing was linked for an entry that is neither.
C26_DestinationMirrorsSource ==
    (cPc = "done" /\ copyErr = "nil") =>
        \A part \in 1 .. nParts, rel \in Rels :
            /\ SourceKind(rel) = "dir" => dst[<<part, rel>>] = "dir"
            /\ SourceKind(rel) = "file" => dst[<<part, rel>>] = "link"
            /\ SourceKind(rel) = "other" => dst[<<part, rel>>] # "link"


(***************************************************************************)
(* Restore, restore.go:31-163                                              *)
(*                                                                         *)
(* RestoreSchema, RestoreData, restoreRBAC, restoreConfigs and the restart *)
(* command are calls with an outcome; the statements of                    *)
(* restoreEmptyDatabase are recorded one by one.                           *)
(***************************************************************************)
Call(op, arg, ok) == [op |-> op, arg |-> arg, ok |-> ok]

\* Restore returns err
RestoreReturn(err) == rPc' = "done" /\ restoreErr' = err

\* lines 32-66: the context, the database mapping, the connection, the backup
\* name, the disks and the default data path
RestoreStart ==
    /\ rPc = "start"
    /\ \E failure \in {"none", "context", "mapping", "connect", "backup name",
                       "disks", "data path"} :
          IF failure = "none" THEN rPc' = "locate" /\ UNCHANGED restoreErr
          ELSE RestoreReturn(failure)
    /\ UNCHANGED <<restoreArgs, rMapping, embeddedBackupPath, regularRead,
                   embeddedRead, pathPrefix, bodyFrom, rIsEmbedded, rErr,
                   onCluster, macros, manifest, rIdx, rCalls>>
    /\ UNCHANGED restoreOthers

\* "for _, metadataPath := range backupMetafileLocalPaths": the regular
\* location is read first, the embedded one (when there is an embedded path)
\* only if the loop was not left; rr and er are what os.ReadFile answers at
\* the two locations, prefix is strings.HasPrefix(regular path, embedded path)
LocateManifest(hasEmbeddedPath, rr, er, prefix) ==
    IF rr = "ok" /\ hasEmbeddedPath
    THEN [from |-> "regular", err |-> "nil", isEmbedded |-> prefix]
    ELSE IF ~hasEmbeddedPath
    THEN [from |-> IF rr = "ok" THEN "regular" ELSE "none",
          err |-> IF rr = "ok" THEN "nil"
                  ELSE IF rr = "notexist" THEN "notexist" ELSE "other",
          isEmbedded |-> FALSE]
    ELSE [from |-> IF er = "ok" THEN "embedded" ELSE "none",
          err |-> IF er = "ok" THEN "nil"
                  ELSE IF er = "notexist" THEN "notexist" ELSE "other",
          isEmbedded |-> (er = "ok")]

\* lines 67-84: the candidate locations and the read loop
RestoreLocate ==
    /\ rPc = "locate"
    /\ \E ep \in {"set", "empty", "error"}, tolerated \in BOOLEAN,
          rr \in {"ok", "notexist", "error"},
          er \in {"unread", "ok", "notexist", "error"}, prefix \in BOOLEAN :
          /\ tolerated => ep = "error"
          /\ (er = "unread") <=> (ep # "set")
          /\ prefix => (ep = "set" /\ rr = "ok")
          /\ IF ep = "error" /\ ~tolerated
             THEN /\ RestoreReturn("embedded path")
                  /\ UNCHANGED <<embeddedBackupPath, regularRead, embeddedRead,
                                 pathPrefix, bodyFrom, rIsEmbedded, rErr>>
             ELSE LET found == LocateManifest(ep = "set", rr, er, prefix)
                  IN  /\ embeddedBackupPath' = IF ep = "set" THEN "set" ELSE "empty"
                      /\ regularRead' = rr /\ embeddedRead' = er
                      /\ pathPrefix' = prefix
                      /\ bodyFrom' = found.from
                      /\ rIsEmbedded' = found.isEmbedded
                      /\ rErr' = found.err
                      /\ rPc' = "manifest"
                      /\ UNCHANGED restoreErr
    /\ UNCHANGED <<restoreArgs, rMapping, onCluster, macros, manifest, rIdx,
                   rCalls>>
    /\ UNCHANGED restoreOthers

\* manifests a backup may hold
DatabaseNames == {"a", "c", "information_schema"}

DatabaseLists ==
    UNION {{l \in [1 .. n -> DatabaseNames] :
               \A i, j \in 1 .. n : l[i] = l[j] => i = j} : n \in 0 .. MaxDatabases}

Manifests ==
    {[Databases |-> l, Tables |-> t, Functions |-> f] :
        l \in DatabaseLists, t \in 0 .. 1, f \in 0 .. 1}

\* err after lines 85-87: ApplyMacros overwrites the error of the read loop
ErrAfterMacros(err, cluster, macrosResult) ==
    IF cluster = "" THEN err
    ELSE IF macrosResult = "ok" THEN "nil" ELSE "other"

\* lines 85-92 and 115-117: the macros, then the manifest is decoded, or the
\* read error is returned, or the backup is taken as a legacy one
RestoreReadManifest ==
    /\ rPc = "manifest"
    /\ \E cluster \in {"", "set"}, m \in {"none", "ok", "error"},
          valid \in BOOLEAN, decoded \in Manifests :
          /\ (m = "none") <=> (cluster = "")
          /\ valid => bodyFrom # "none"
          /\ ~valid => decoded = NoManifest
          /\ onCluster' = cluster /\ macros' = m
          /\ rErr' = ErrAfterMacros(rErr, cluster, m)
          /\ IF rErr' = "nil"
             THEN IF ~valid
                  THEN RestoreReturn("unmarshal") /\ UNCHANGED manifest
                  ELSE /\ manifest' = decoded /\ rPc' = "databases"
                       /\ UNCHANGED restoreErr
             ELSE /\ UNCHANGED manifest
                  /\ ~valid
                  /\ IF rErr' = "notexist"
                     THEN rPc' = "rbac" /\ UNCHANGED restoreErr
                     ELSE RestoreReturn(IF m = "error" THEN "macros" ELSE "read")
    /\ UNCHANGED <<restoreArgs, rMapping, embeddedBackupPath, regularRead,
                   embeddedRead, pathPrefix, bodyFrom, rIsEmbedded, rIdx,
                   rCalls>>
    /\ UNCHANGED restoreOthers

\* doRestoreData := !schemaOnly || dataOnly
DoRestoreData(sOnly, dOnly) == ~sOnly \/ dOnly

\* IsInformationSchema(database)
IsInformationSchema(name) == name = "information_schema"

\* answers of ShallSkipDatabase(cfg, targetDB, tablePattern): it depends on
\* the configuration and on the table pattern; an information-schema database
\* is matched for exclusion
ShallSkipDatabase(targetDB) ==
    IF IsInformationSchema(targetDB) THEN {TRUE} ELSE BOOLEAN

\* one iteration of "for _, database := range backupMetadata.Databases" with
\* restoreEmptyDatabase
RestoreDatabase ==
    /\ rPc = "databases" /\ rIdx <= Len(manifest.Databases)
    /\ schemaOnly \/ DoRestoreData(schemaOnly, dataOnly)
    /\ LET name == manifest.Databases[rIdx]
           targetDB == TargetDB(rMapping, name)
           drop == schemaOnly /\ dropTable
       IN  \E skip \in ShallSkipDatabase(targetDB), dropOk, createOk \in BOOLEAN :
            /\ ~dropOk => (drop /\ ~skip /\ ~IsInformationSchema(name) /\ createOk)
            /\ (skip \/ ~createOk) => ~IsInformationSchema(name)
            /\ IF IsInformationSchema(name) \/ skip
               THEN /\ rIdx' = rIdx + 1
                    /\ UNCHANGED <<rCalls, rPc, restoreErr>>
               ELSE IF drop /\ ~dropOk
               THEN /\ rCalls' = Append(rCalls, Call("DROP DATABASE", targetDB, FALSE))
                    /\ RestoreReturn("database")
                    /\ UNCHANGED rIdx
               ELSE /\ rCalls' = rCalls
                          \o (IF drop THEN <<Call("DROP DATABASE", targetDB, TRUE)>>
                              ELSE <<>>)
                          \o <<Call("CREATE DATABASE", targetDB, createOk)>>
                    /\ IF createOk
                       THEN rIdx' = rIdx + 1 /\ UNCHANGED <<rPc, restoreErr>>
                       ELSE RestoreReturn("database") /\ UNCHANGED rIdx
    /\ UNCHANGED <<restoreArgs, rMapping, embeddedBackupPath, regularRead,
                   embeddedRead, pathPrefix, bodyFrom, rIsEmbedded, rErr,
                   onCluster, macros, manifest>>
    /\ UNCHANGED restoreOthers

\* lines 103-114: the user-defined functions, then a manifest without tables
\* ends the call unless rbacOnly or configsOnly is set
RestoreFunctions ==
    /\ rPc = "databases"
    /\ \/ rIdx > Len(manifest.Databases)
       \/ ~(schemaOnly \/ DoRestoreData(schemaOnly, dataOnly))
    /\ \E functionsOk \in BOOLEAN :
          LET create == (schemaOnly \/ DoRestoreData(schemaOnly, dataOnly))
                          /\ manifest.Functions > 0
          IN  /\ ~functionsOk => create
              /\ rCalls' = IF create
                           THEN Append(rCalls, Call("CreateUserDefinedFunction",
                                                    "", functionsOk))
                           ELSE rCalls
              /\ IF ~functionsOk THEN RestoreReturn("function")
                 ELSE IF manifest.Tables = 0 /\ ~rbacOnly /\ ~configsOnly
                 THEN RestoreReturn("nil")
                 ELSE rPc' = "rbac" /\ UNCHANGED restoreErr
    /\ UNCHANGED <<restoreArgs, rMapping, embeddedBackupPath, regularRead,
                   embeddedRead, pathPrefix, bodyFrom, rIsEmbedded, rErr,
                   onCluster, macros, manifest, rIdx>>
    /\ UNCHANGED restoreOthers

\* the RBAC / configs path is taken for this flag
PathTaken(flag, embedded) == flag /\ ~embedded

\* lines 118-149: restoreRBAC, restoreConfigs and the restart command, whose
\* outcome is returned
RestoreRbacConfigs ==
    /\ rPc = "rbac"
    /\ \E rbacOk, configsOk, restartOk \in BOOLEAN :
          LET doRbac == PathTaken(rbacOnly, rIsEmbedded)
              doConfigs == PathTaken(configsOnly, rIsEmbedded)
              rbacCall == IF doRbac THEN <<Call("restoreRBAC", "", rbacOk)>> ELSE <<>>
              configsCall == IF doConfigs
                             THEN <<Call("restoreConfigs", "", configsOk)>> ELSE <<>>
          IN  /\ ~rbacOk => (doRbac /\ configsOk /\ restartOk)
              /\ ~configsOk => (doConfigs /\ restartOk)
              /\ ~restartOk => (doRbac \/ doConfigs)
              /\ IF doRbac /\ ~rbacOk
                 THEN rCalls' = rCalls \o rbacCall /\ RestoreReturn("rbac")
                 ELSE IF doConfigs /\ ~configsOk
                 THEN /\ rCalls' = rCalls \o rbacCall \o configsCall
                      /\ RestoreReturn("configs")
                 ELSE IF doRbac \/ doConfigs
                 THEN /\ rCalls' = rCalls \o rbacCall \o configsCall
                                      \o <<Call("restart", "", restartOk)>>
                      /\ RestoreReturn(IF restartOk THEN "nil" ELSE "restart")
                 ELSE /\ rPc' = "schema" /\ UNCHANGED <<rCalls, restoreErr>>
    /\ UNCHANGED <<restoreArgs, rMapping, embeddedBackupPath, regularRead,
                   embeddedRead, pathPrefix, bodyFrom, rIsEmbedded, rErr,
                   onCluster, macros, manifest, rIdx>>
    /\ UNCHANGED restoreOthers

\* the schema phase runs for schemaOnly alone
SchemaSelectedFlagOnly(sOnly, dOnly) == sOnly

\* schemaOnly || (schemaOnly == dataOnly)
SchemaSelected(sOnly, dOnly) == sOnly \/ (sOnly = dOnly)

\* dataOnly || (schemaOnly == dataOnly)
DataSelected(sOnly, dOnly) == dOnly \/ (sOnly = dOnly)

\* lines 151-155
RestorePhaseSchema ==
    /\ rPc = "schema"
    /\ \E ok \in BOOLEAN :
          /\ ~ok => SchemaSelected(schemaOnly, dataOnly)
          /\ rCalls' = IF SchemaSelected(schemaOnly, dataOnly)
                       THEN Append(rCalls, Call("RestoreSchema", "", ok))
                       ELSE rCalls
          /\ IF ok THEN rPc' = "data" /\ UNCHANGED restoreErr
             ELSE RestoreReturn("schema")
    /\ UNCHANGED <<restoreArgs, rMapping, embeddedBackupPath, regularRead,
                   embeddedRead, pathPrefix, bodyFrom, rIsEmbedded, rErr,
                   onCluster, macros, manifest, rIdx>>
    /\ UNCHANGED restoreOthers

\* lines 156-162
RestorePhaseData ==
    /\ rPc = "data"
    /\ \E ok \in BOOLEAN :
          /\ ~ok => DataSelected(schemaOnly, dataOnly)
          /\ rCalls' = IF DataSelected(schemaOnly, dataOnly)
                       THEN Append(rCalls, Call("RestoreData", "", ok))
                       ELSE rCalls
          /\ RestoreReturn(IF ok THEN "nil" ELSE "data")
    /\ UNCHANGED <<restoreArgs, rMapping, embeddedBackupPath, regularRead,
                   embeddedRead, pathPrefix, bodyFrom, rIsEmbedded, rErr,
                   onCluster, macros, manifest, rIdx>>
    /\ UNCHANGED restoreOthers

\* the database mapping of the call, after prepareRestoreDatabaseMapping
RestoreMappings == {<<>>, [d \in {"a"} |-> "information_schema"]}

InitRestore ==
    /\ SchemaIdle /\ DataIdle /\ CopyIdle /\ MappingIdle /\ PartitionIdle
    /\ ChownIdle /\ schemaCall = NoSchemaCall
    /\ rPc = "start"
    /\ schemaOnly \in BOOLEAN /\ dataOnly \in BOOLEAN /\ dropTable \in BOOLEAN
    /\ rbacOnly \in BOOLEAN /\ configsOnly \in BOOLEAN
    /\ rMapping \in RestoreMappings
    /\ embeddedBackupPath = "unset"
    /\ regularRead = "unread" /\ embeddedRead = "unread"
    /\ pathPrefix = FALSE /\ bodyFrom = "none" /\ rIsEmbedded = FALSE
    /\ rErr = "nil" /\ onCluster = "" /\ macros = "none"
    /\ manifest = NoManifest /\ rIdx = 1 /\ rCalls = <<>>
    /\ restoreErr = "none"

NextRestore ==
    \/ RestoreStart
    \/ RestoreLocate
    \/ RestoreReadManifest
    \/ RestoreDatabase
    \/ RestoreFunctions
    \/ RestoreRbacConfigs
    \/ RestorePhaseSchema
    \/ RestorePhaseData

SpecRestore == InitRestore /\ [][NextRestore]_vars

(***************************************************************************)
(* Properties of Restore.                                                  *)
(***************************************************************************)
Invoked(op) == \E i \in 1 .. Len(rCalls) : rCalls[i].op = op

TimesInvoked(op) == Cardinality({i \in 1 .. Len(rCalls) : rCalls[i].op = op})

\* the call is past the reading of the manifest
ManifestHandled == rPc \notin {"idle", "start", "locate", "manifest"}

\* C11: with no RBAC / configs path taken, RestoreSchema is invoked iff
\* schemaOnly or schemaOnly = dataOnly, RestoreData iff dataOnly or
\* schemaOnly = dataOnly (both when neither flag is set); RestoreSchema has
\* returned, without error, before RestoreData is invoked.
C11_PhaseSelection ==
    LET wantSchema == schemaOnly \/ (schemaOnly = dataOnly)
        wantData == dataOnly \/ (schemaOnly = dataOnly)
        pathTaken == Invoked("restoreRBAC") \/ Invoked("restoreConfigs")
        selected == \/ rPc = "data"
                    \/ restoreErr \in {"schema", "data"}
                    \/ (restoreErr = "nil" /\ ~pathTaken /\ manifest.Tables >= 1)
        dataReached == selected /\ rPc = "done" /\ restoreErr # "schema"
    IN  /\ TimesInvoked("RestoreSchema") <= 1 /\ TimesInvoked("RestoreData") <= 1
        /\ Invoked("RestoreSchema") => wantSchema
        /\ Invoked("RestoreData") => wantData
        /\ selected => (Invoked("RestoreSchema") <=> wantSchema)
        /\ dataReached => (Invoked("RestoreData") <=> wantData)
        /\ restoreErr = "schema" => ~Invoked("RestoreData")
        /\ \A i, j \in 1 .. Len(rCalls) :
              (rCalls[i].op = "RestoreSchema" /\ rCalls[j].op = "RestoreData")
                  => (i < j /\ rCalls[i].ok)

\* neither flag set, a manifest with a table: both phases ran, in order
C11_Witness ==
    /\ rPc = "done" /\ restoreErr = "nil" /\ ~schemaOnly /\ ~dataOnly
    /\ ~rbacOnly /\ ~configsOnly /\ manifest.Tables >= 1
    /\ Invoked("RestoreSchema") /\ Invoked("RestoreData")

\* C12: a call with rbacOnly or configsOnly set invokes neither RestoreSchema
\* nor RestoreData, whether the backup is a regular or an embedded one.
C12_RbacConfigsShortCircuit ==
    (rbacOnly \/ configsOnly)
        => (~Invoked("RestoreSchema") /\ ~Invoked("RestoreData"))

\* C13: when metadata.json is readable at the regular and at the embedded
\* location, the embedded manifest is used and isEmbedded is true.
C13_EmbeddedPreferred ==
    (regularRead = "ok" /\ embeddedRead = "ok")
        => (bodyFrom = "embedded" /\ rIsEmbedded)

\* C14: a manifest absent at every candidate location never makes Restore
\* fail (the backup is a legacy one), whatever RestoreSchemaOnCluster is when
\* the macros are applied without error; a read that fails otherwise, with no
\* location read, makes Restore return an error before any schema or data
\* restore.
C14_ManifestReadErrors ==
    LET absent == /\ regularRead = "notexist"
                  /\ embeddedRead \in {"unread", "notexist"}
        unreadable == /\ regularRead # "ok" /\ embeddedRead # "ok"
                      /\ (regularRead = "error" \/ embeddedRead = "error")
    IN  /\ (ManifestHandled /\ absent /\ macros # "error")
              => restoreErr \notin {"unmarshal", "read", "macros"}
        /\ (ManifestHandled /\ unreadable)
              => (/\ rPc = "done" /\ restoreErr \notin {"none", "nil"}
                  /\ ~Invoked("RestoreSchema") /\ ~Invoked("RestoreData"))

\* C19: a data-only restore issues no CREATE DATABASE and no DROP DATABASE,
\* and no restore issues one for an information-schema database.
C19_DatabasesInSchemaPhaseOnly ==
    \A i \in 1 .. Len(rCalls) :
        rCalls[i].op \in {"CREATE DATABASE", "DROP DATABASE"}
            => (/\ ~(dataOnly /\ ~schemaOnly)
                /\ ~IsInformationSchema(rCalls[i].arg))


(***************************************************************************)
(* prepareRestoreDatabaseMapping, restore.go:192-204                       *)
(*                                                                         *)
(* A string is a sequence of characters.                                   *)
(***************************************************************************)
MappingChars == {"a", "b", ":", ","}

\* strings.Split(str, sep) for a separator of one character
RECURSIVE Split(_, _)
Split(str, sep) ==
    IF \A i \in 1 .. Len(str) : str[i] # sep THEN <<str>>
    ELSE LET k == CHOOSE i \in 1 .. Len(str) :
                      str[i] = sep /\ \A j \in 1 .. i - 1 : str[j] # sep
         IN  <<SubSeq(str, 1, k - 1)>> \o Split(SubSeq(str, k + 1, Len(str)), sep)

\* len(splitByColon) != 2
RuleRejected(splitByColon) == Len(splitByColon) # 2

\* one iteration of "for _, m := range splitByCommas", with the step of the
\* loop over databaseMapping around it
PrepareRule ==
    /\ mPc = "run"
    /\ LET splitByCommas == Split(databaseMapping[mArg], ",")
           splitByColon == Split(splitByCommas[mRule], ":")
       IN  IF RuleRejected(splitByColon)
           THEN /\ mPc' = "done" /\ mErr' = "format"
                /\ UNCHANGED <<mArg, mRule, mMap>>
           ELSE /\ mMap' = [n \in DOMAIN mMap \cup {splitByColon[1]} |->
                              IF n = splitByColon[1] THEN splitByColon[2]
                              ELSE mMap[n]]
                /\ IF mRule < Len(splitByCommas)
                   THEN mRule' = mRule + 1 /\ UNCHANGED <<mArg, mPc, mErr>>
                   ELSE IF mArg < Len(databaseMapping)
                   THEN mArg' = mArg + 1 /\ mRule' = 1 /\ UNCHANGED <<mPc, mErr>>
                   ELSE mPc' = "done" /\ mErr' = "nil" /\ UNCHANGED <<mArg, mRule>>
    /\ UNCHANGED databaseMapping
    /\ UNCHANGED mappingOthers

\* entry of the call: with no argument the loop body is never entered
PrepareEnter ==
    /\ mPc = "start"
    /\ IF Len(databaseMapping) = 0
       THEN mPc' = "done" /\ mErr' = "nil"
       ELSE mPc' = "run" /\ UNCHANGED mErr
    /\ UNCHANGED <<databaseMapping, mArg, mRule, mMap>>
    /\ UNCHANGED mappingOthers

\* strings of n characters
StringsOfLen(n) == [1 .. n -> MappingChars]

\* lists of at most two arguments with MaxMappingLen characters in all
MappingArguments ==
    {<<>>}
    \cup UNION {{<<str>> : str \in StringsOfLen(n)} : n \in 0 .. MaxMappingLen}
    \cup UNION {{<<s1, s2>> : s1 \in StringsOfLen(n[1]), s2 \in StringsOfLen(n[2])} :
                   n \in {c \in (0 .. MaxMappingLen) \X (0 .. MaxMappingLen) :
                             c[1] + c[2] <= MaxMappingLen}}

InitMapping ==
    /\ SchemaIdle /\ DataIdle /\ CopyIdle /\ RestoreIdle /\ PartitionIdle
    /\ ChownIdle /\ schemaCall = NoSchemaCall
    /\ mPc = "start"
    /\ databaseMapping \in MappingArguments
    /\ mArg = 1 /\ mRule = 1 /\ mMap = <<>> /\ mErr = "none"

NextMapping ==
    \/ PrepareEnter
    \/ PrepareRule

SpecMapping == InitMapping /\ [][NextMapping]_vars

\* the rules of all arguments, in the order the loops visit them
RECURSIVE AllRules(_)
AllRules(arguments) ==
    IF arguments = <<>> THEN <<>>
    ELSE Split(Head(arguments), ",") \o AllRules(Tail(arguments))

WellFormedRule(rule) ==
    LET parts == Split(rule, ":")
    IN  Len(parts) = 2 /\ parts[1] # <<>> /\ parts[2] # <<>>

\* C15: a call returns the format error iff some rule does not split on ':'
\* into exactly two names that are not empty; a call that returns nil has
\* registered source -> destination for each rule (the last rule of a source
\* wins).
C15_MalformedRulesRejected ==
    mPc = "done" =>
        LET rules == AllRules(databaseMapping)
        IN  /\ (mErr = "format")
                  <=> (\E i \in 1 .. Len(rules) : ~WellFormedRule(rules[i]))
            /\ mErr = "nil" =>
                  /\ DOMAIN mMap = {Split(rules[i], ":")[1] : i \in 1 .. Len(rules)}
                  /\ \A i \in 1 .. Len(rules) :
                        (\A j \in i + 1 .. Len(rules) :
                            Split(rules[j], ":")[1] # Split(rules[i], ":")[1])
                            => mMap[Split(rules[i], ":")[1]] = Split(rules[i], ":")[2]

\* C27: a call that returned the format error has left the registered
\* mapping as it was before the call (empty, in this specification): no rule
\* of the rejected arguments is registered.
C27_RejectedInputRegistersNothing ==
    (mPc = "done" /\ mErr = "format") => mMap = <<>>


(***************************************************************************)
(* CreatePartitionsToBackupMap, filesystemhelper.go:277-323                *)
(*                                                                         *)
(* A string is a sequence of characters; a map with empty values is the    *)
(* set of its keys.                                                        *)
(***************************************************************************)
\* the cutset " \t" of strings.Trim
Blank == {" ", "\t"}

RECURSIVE TrimLeft(_)
TrimLeft(str) ==
    IF str # <<>> /\ Head(str) \in Blank THEN TrimLeft(Tail(str)) ELSE str

RECURSIVE TrimRight(_)
TrimRight(str) ==
    IF str # <<>> /\ str[Len(str)] \in Blank
    THEN TrimRight(SubSeq(str, 1, Len(str) - 1)) ELSE str

\* an item taken as it stands
TrimNothing(str) == str

\* strings.Trim(str, " \t")
Trim(str) == TrimRight(TrimLeft(str))

\* strings.HasPrefix(str, "(")
IsTupleForm(str) == str # <<>> /\ Head(str) = "("

\* strings.TrimSuffix(strings.TrimPrefix(str, "("), ")")
Unwrap(str) ==
    LET inner == IF str # <<>> /\ Head(str) = "(" THEN Tail(str) ELSE str
    IN  IF inner # <<>> /\ inner[Len(inner)] = ")"
        THEN SubSeq(inner, 1, Len(inner) - 1) ELSE inner

\* end of the match of \s*,\s*\( that begins right after position i, or 0
SeparatorEnd(str, i) ==
    LET comma == {j \in i + 1 .. Len(str) :
                     str[j] = "," /\ \A k \in i + 1 .. j - 1 : str[k] \in Blank}
        ends == {k \in i + 2 .. Len(str) :
                    /\ str[k] = "("
                    /\ \E j \in comma :
                          j < k /\ \A l \in j + 1 .. k - 1 : str[l] \in Blank}
    IN  IF ends = {} THEN 0 ELSE CHOOSE k \in ends : \A l \in ends : k <= l

\* partitionTupleRE.Split(str, -1), the expression being \)\s*,\s*\(
RECURSIVE TupleSplit(_)
TupleSplit(str) ==
    LET starts == {i \in 1 .. Len(str) : str[i] = ")" /\ SeparatorEnd(str, i) # 0}
    IN  IF starts = {} THEN <<str>>
        ELSE LET i == CHOOSE x \in starts : \A y \in starts : x <= y
             IN  <<SubSeq(str, 1, i - 1)>>
                    \o TupleSplit(SubSeq(str, SeparatorEnd(str, i) + 1, Len(str)))

\* keys added by the literal branch for one argument
LiteralItems(partitionArg) ==
    LET items == Split(partitionArg, ",")
    IN  {Trim(items[i]) : i \in 1 .. Len(items)}

\* what partition.GetPartitionId may return: an error, no identifier, or the
\* identifier the engine computes
PartitionIdResults ==
    {[err |-> TRUE, id |-> <<>>], [err |-> FALSE, id |-> <<>>],
     [err |-> FALSE, id |-> <<"1">>], [err |-> FALSE, id |-> <<"h">>]}

\* the map handed back when an evaluation failed, the keys found so far kept
AbortedMapPartial(found) == found

\* return make(common.EmptyMap, 0), partitions
AbortedMap(found) == {}

\* the loops are over: newPartitions holds the keys in the order of the
\* iteration over the map
PartitionsReturn(map) ==
    /\ pPc' = "done" /\ retMap' = map /\ retList' \in Orders(map)

\* after one argument, or one tuple of it: the next tuple, the next argument
\* or the end of the loops
PartitionsAdvance(map, lastOfArgument) ==
    IF ~lastOfArgument
    THEN pTuple' = pTuple + 1 /\ UNCHANGED <<pArg, pPc, retMap, retList>>
    ELSE IF pArg < Len(partitions)
    THEN pArg' = pArg + 1 /\ pTuple' = 1 /\ UNCHANGED <<pPc, retMap, retList>>
    ELSE PartitionsReturn(map) /\ UNCHANGED <<pArg, pTuple>>

\* lines 280-284
PartitionsEnter ==
    /\ pPc = "start"
    /\ IF Len(partitions) = 0
       THEN pPc' = "done" /\ retMap' = {} /\ retList' = partitions
       ELSE pPc' = "args" /\ UNCHANGED <<retMap, retList>>
    /\ UNCHANGED <<partitions, tablesFromClickHouse, tablesFromMetadata, pArg,
                   pTuple, partitionsMap, evalFailed>>
    /\ UNCHANGED partitionOthers

\* lines 310-314: one argument in literal form
ResolveLiteral ==
    /\ pPc = "args"
    /\ LET partitionArg == Trim(partitions[pArg])
       IN  /\ ~IsTupleForm(partitionArg)
           /\ partitionsMap' = partitionsMap \cup LiteralItems(partitionArg)
           /\ PartitionsAdvance(partitionsMap', TRUE)
    /\ UNCHANGED <<partitions, tablesFromClickHouse, tablesFromMetadata,
                   evalFailed>>
    /\ UNCHANGED partitionOthers

\* lines 290-309: one tuple of an argument in tuple form, evaluated for the
\* live tables and then for the captured ones
ResolveTuple ==
    /\ pPc = "args"
    /\ LET partitionArg == Trim(partitions[pArg])
           tuples == TupleSplit(Unwrap(partitionArg))
           n == tablesFromClickHouse + tablesFromMetadata
       IN  /\ IsTupleForm(partitionArg)
           /\ \E results \in [1 .. n -> PartitionIdResults] :
                LET failures == {k \in 1 .. n : results[k].err}
                    stop == IF failures = {} THEN n + 1
                            ELSE CHOOSE k \in failures : \A l \in failures : k <= l
                    found == partitionsMap
                               \cup {results[k].id : k \in {l \in 1 .. stop - 1 :
                                                              results[l].id # <<>>}}
                IN  /\ \A k \in stop + 1 .. n : results[k] = results[stop]
                    /\ partitionsMap' = found
                    /\ IF failures # {}
                       THEN /\ evalFailed' = TRUE
                            /\ pPc' = "done"
                            /\ retMap' = AbortedMap(found)
                            /\ retList' = partitions
                            /\ UNCHANGED <<pArg, pTuple>>
                       ELSE /\ PartitionsAdvance(found, pTuple = Len(tuples))
                            /\ UNCHANGED evalFailed
    /\ UNCHANGED <<partitions, tablesFromClickHouse, tablesFromMetadata>>
    /\ UNCHANGED partitionOthers

PartitionChars == {"1", " ", ",", "(", ")"}

\* arguments with more characters than the bound allows to enumerate
LongPartitionArguments ==
    {<<"1", ",", "2">>, <<" ", "1", " ", ",", "\t", "2", " ">>,
     <<"2", ",", "1", ",", "2">>,
     <<"(", "1", ")", ",", "(", "2", ")">>,
     <<" ", "(", "1", ")", " ", ",", " ", "(", "2", ")">>,
     <<"(", "1", ",", "2", ")">>}

PartitionArguments ==
    LongPartitionArguments
        \cup UNION {[1 .. n -> PartitionChars] : n \in 0 .. MaxPartitionLen}

InitPartitions ==
    /\ SchemaIdle /\ DataIdle /\ CopyIdle /\ RestoreIdle /\ MappingIdle
    /\ ChownIdle /\ schemaCall = NoSchemaCall
    /\ pPc = "start"
    /\ partitions \in {<<>>} \cup {<<x>> : x \in PartitionArguments}
                        \cup {<<x, y>> : x, y \in PartitionArguments}
    /\ tablesFromClickHouse \in 0 .. 1 /\ tablesFromMetadata \in 0 .. 1
    /\ pArg = 1 /\ pTuple = 1 /\ partitionsMap = {}
    /\ retMap = {} /\ retList = <<>> /\ evalFailed = FALSE

NextPartitions ==
    \/ PartitionsEnter
    \/ ResolveLiteral
    \/ ResolveTuple

SpecPartitions == InitPartitions /\ [][NextPartitions]_vars

(***************************************************************************)
(* Properties of the partition resolution.                                 *)
(***************************************************************************)
NonBlanks(str) == {k \in 1 .. Len(str) : str[k] \notin {" ", "\t"}}

\* str without the spaces and tabs around it
Core(str) ==
    IF NonBlanks(str) = {} THEN <<>>
    ELSE SubSeq(str, CHOOSE a \in NonBlanks(str) : \A b \in NonBlanks(str) : a <= b,
                     CHOOSE a \in NonBlanks(str) : \A b \in NonBlanks(str) : b <= a)

\* the comma-separated items of str, each without the blanks around it
ExpectedItems(str) ==
    {Core(SubSeq(str, i, j)) :
        <<i, j>> \in {c \in (1 .. Len(str) + 1) \X (0 .. Len(str)) :
                        /\ c[1] <= c[2] + 1
                        /\ \A k \in c[1] .. c[2] : str[k] # ","
                        /\ (c[1] = 1 \/ str[c[1] - 1] = ",")
                        /\ (c[2] = Len(str) \/ str[c[2] + 1] = ",")}}

\* no argument has a parenthesis as its first character that is not a blank
AllLiteral ==
    \A i \in 1 .. Len(partitions) :
        Core(partitions[i]) = <<>> \/ Core(partitions[i])[1] # "("

\* C16: for arguments in literal form the identifier set returned is the set
\* of the comma-separated items of all arguments, freed of the spaces and
\* tabs around them, and the list returned holds each of them once and
\* nothing else.
C16_LiteralItemsResolved ==
    (pPc = "done" /\ AllLiteral) =>
        /\ retMap = UNION {ExpectedItems(partitions[i]) : i \in 1 .. Len(partitions)}
        /\ Len(retList) = Cardinality(retMap)
        /\ Range(retList) = retMap

\* two literal arguments with blanks and repeated items gave two identifiers
C16_Witness ==
    /\ pPc = "done"
    /\ partitions = <<<<" ", "1", " ", ",", "\t", "2", " ">>,
                      <<"2", ",", "1", ",", "2">>>>
    /\ retMap = {<<"1">>, <<"2">>} /\ Len(retList) = 2

\* C17: once an evaluation of a tuple has failed the call has returned and
\* the identifier set returned is empty, whatever had been found before.
C17_FailureAbandonsResolution ==
    evalFailed => (pPc = "done" /\ retMap = {})

\* an evaluation failed after identifiers had been found
C17_Witness ==
    /\ evalFailed /\ pPc = "done" /\ pArg = 2
    /\ partitionsMap # {} /\ retMap = {}


(***************************************************************************)
(* Chown, filesystemhelper.go:22-63, called from several threads of one    *)
(* process.  A step is one statement of a call; chownLock is a mutex that  *)
(* any thread may find locked.                                             *)
(***************************************************************************)
\* uid / gid pairs the data path can be found to have at a lookup
OwnerIds == {<<101, 101>>, <<102, 102>>}

\* a cache that is looked up on every call
NeedsLookupAlways(ids) == TRUE

\* if uid == nil
NeedsLookup(ids) == ids = NoIds

\* the call of thread t returns res
ChownReturn(t, res) ==
    [thread EXCEPT ![t].pc = "idle", ![t].ret = res]

\* a call begins: lines 35-37, the getuid test
ChownEnter(t) ==
    /\ UNCHANGED chownOthers
    /\ thread[t].pc = "idle" /\ thread[t].calls < MaxChownCalls
    /\ thread' = IF ~isRoot
                 THEN [thread EXCEPT ![t].calls = @ + 1, ![t].ret = "nil"]
                 ELSE [thread EXCEPT ![t].calls = @ + 1, ![t].pc = "lock",
                                     ![t].ret = "none"]
    /\ UNCHANGED <<isRoot, lockHolder, cachedIds, lookups, everCached>>

\* line 38: chownLock.Lock() goes through when the mutex is unlocked
ChownLock(t) ==
    /\ UNCHANGED chownOthers
    /\ thread[t].pc = "lock" /\ lockHolder = 0
    /\ lockHolder' = t
    /\ thread' = [thread EXCEPT ![t].pc = "check"]
    /\ UNCHANGED <<isRoot, cachedIds, lookups, everCached>>

\* line 39
ChownCheck(t) ==
    /\ UNCHANGED chownOthers
    /\ thread[t].pc = "check"
    /\ thread' = [thread EXCEPT ![t].pc = IF NeedsLookup(cachedIds)
                                          THEN "lookup" ELSE "unlock"]
    /\ UNCHANGED <<isRoot, lockHolder, cachedIds, lookups, everCached>>

\* lines 40-51: GetDefaultPath, os.Stat and the two assignments; either call
\* may fail, and the function then returns its error
ChownLookup(t) ==
    /\ UNCHANGED chownOthers
    /\ thread[t].pc = "lookup"
    /\ \/ /\ thread' = ChownReturn(t, "err")
          /\ UNCHANGED <<cachedIds, lookups, everCached>>
       \/ \E ids \in OwnerIds :
             /\ cachedIds' = ids
             /\ lookups' = lookups + 1
             /\ everCached' = everCached \cup {ids}
             /\ thread' = [thread EXCEPT ![t].pc = "unlock"]
    /\ UNCHANGED <<isRoot, lockHolder>>

\* line 53: chownLock.Unlock()
ChownUnlock(t) ==
    /\ UNCHANGED chownOthers
    /\ thread[t].pc = "unlock"
    /\ lockHolder' = 0
    /\ thread' = [thread EXCEPT ![t].pc = "apply"]
    /\ UNCHANGED <<isRoot, cachedIds, lookups, everCached>>

\* lines 54-62: os.Chown(path, *uid, *gid), on the path or on every file
\* below it, and the return of its result
ChownApply(t) ==
    /\ UNCHANGED chownOthers
    /\ thread[t].pc = "apply"
    /\ \E res \in {"nil", "err"} :
          thread' = [ChownReturn(t, res) EXCEPT
                        ![t].applied = @ \cup {cachedIds}]
    /\ UNCHANGED <<isRoot, lockHolder, cachedIds, lookups, everCached>>

InitChown ==
    /\ SchemaIdle /\ DataIdle /\ CopyIdle
    /\ RestoreIdle /\ MappingIdle /\ PartitionIdle
    /\ schemaCall = NoSchemaCall
    /\ isRoot \in BOOLEAN
    /\ thread = [t \in Threads |-> FreshThread]
    /\ lockHolder = 0 /\ cachedIds = NoIds
    /\ lookups = 0 /\ everCached = {}

NextChown ==
    \E t \in Threads :
        \/ ChownEnter(t)
        \/ ChownLock(t)
        \/ ChownCheck(t)
        \/ ChownLookup(t)
        \/ ChownUnlock(t)
        \/ ChownApply(t)

SpecChown == InitChown /\ [][NextChown]_vars

\* C23: under every interleaving of privileged Chown calls the ownership
\* lookup completes successfully at most once, uid / gid hold the value first
\* stored into them from then on, and every os.Chown call is given that
\* pair; in a process that is not privileged the lock is never held, uid /
\* gid stay unset and no os.Chown call is made.
C23_LookupOnceAndCached ==
    /\ lookups <= 1
    /\ Cardinality(everCached) <= 1
    /\ everCached = IF cachedIds = NoIds THEN {} ELSE {cachedIds}
    /\ \A t \in DOMAIN thread :
          /\ thread[t].applied \subseteq everCached
          /\ thread[t].pc = "apply" => cachedIds # NoIds
    /\ ~isRoot =>
          /\ lockHolder = 0 /\ cachedIds = NoIds /\ lookups = 0
          /\ \A t \in DOMAIN thread :
                thread[t].applied = {} /\ thread[t].pc = "idle"

\* C23 witness: every thread made all its calls, one lookup served them all
C23_Witness ==
    /\ isRoot /\ lookups = 1 /\ thread # <<>>
    /\ \A t \in DOMAIN thread :
          /\ thread[t].calls = MaxChownCalls /\ thread[t].pc = "idle"
          /\ thread[t].ret = "nil" /\ thread[t].applied = {cachedIds}

\* C24: a thread that is not inside Chown (it has returned from every call
\* it made) does not hold chownLock.
C24_ReturnsReleaseLock ==
    \A t \in DOMAIN thread :
        thread[t].pc = "idle" => lockHolder # t


(***************************************************************************)
(* RestoreSchema, restore.go:285-345: the selection of the tables, then    *)
(* dropExistsTables and restoreSchemaRegular (the loops above) or          *)
(* restoreSchemaEmbedded on the selected list.                             *)
(***************************************************************************)
\* lines 291-331: the steps before the list is used; any of them may fail
RestoreSchemaSelect ==
    /\ UNCHANGED <<schemaCallOthers, schemaCall>>
    /\ schemaCall.active /\ phase = "select" /\ sPc = "enter"
    /\ \E prepared \in BOOLEAN :
          IF ~prepared
          THEN /\ sPc' = "done" /\ schemaErr' = "prepare" /\ UNCHANGED phase
          ELSE IF NoMatchingTables(callerTables)
          THEN /\ sPc' = "done" /\ schemaErr' = "nomatch" /\ UNCHANGED phase
          ELSE \* line 332: dropExistsTables(tablesForRestore, ...)
               /\ phase' = "drop" /\ UNCHANGED <<sPc, schemaErr>>
    /\ UNCHANGED <<totalRetries, tablesForRestore, notRestoredTables,
                   restoreRetries, isDatabaseCreated, tablesForDrop,
                   notDroppedTables, dropRetries, callerTables, dropAliased,
                   sIdx, envMode, deps, stuck, done, passes, okAttempts,
                   failedInPass, lastFailed, dbAttempts, lateAttempt, lastDrop>>

\* lines 332-344: dropExistsTables returned nil; the list goes to
\* restoreSchemaEmbedded or to restoreSchemaRegular.  What the drop loop kept
\* for itself is gone.
RestoreSchemaCreate ==
    /\ UNCHANGED <<schemaCallOthers, schemaCall>>
    /\ schemaCall.active /\ phase = "drop" /\ sPc = "done"
    /\ schemaErr = "nil"
    /\ IF schemaCall.isEmbedded
       THEN /\ phase' = "embedded"
            /\ \E answer \in EmbeddedAnswers :
                  schemaErr' = EmbeddedErr(answer).kind
            /\ UNCHANGED <<sPc, tablesForRestore>>
       ELSE /\ phase' = "create" /\ sPc' = "enter"
            /\ schemaErr' = "none"
            /\ tablesForRestore' = [i \in 1 .. Len(callerTables) |-> i]
    /\ tablesForDrop' = <<>> /\ notDroppedTables' = <<>> /\ dropRetries' = 0
    /\ dropAliased' = FALSE /\ lastDrop' = NoDrop
    /\ done' = {} /\ passes' = 0 /\ okAttempts' = [t \in Tables |-> 0]
    /\ failedInPass' = <<>> /\ lastFailed' = <<>> /\ lateAttempt' = FALSE
    /\ UNCHANGED <<totalRetries, notRestoredTables, restoreRetries,
                   isDatabaseCreated, callerTables, sIdx, envMode, deps,
                   stuck, dbAttempts>>

InitRestoreSchema ==
    /\ DataIdle /\ CopyIdle
    /\ RestoreIdle /\ MappingIdle /\ PartitionIdle /\ ChownIdle
    /\ schemaCall \in [active : {TRUE}, dropTable : BOOLEAN, isEmbedded : BOOLEAN]
    /\ phase = "select" /\ sPc = "enter"
    /\ totalRetries \in 0 .. MaxTables
    /\ envMode = "any" /\ deps = [t \in Tables |-> {}] /\ stuck = {}
    /\ callerTables \in
          {[i \in 1 .. totalRetries |-> TableEntry(i, kinds[i])] :
              kinds \in {k \in [1 .. totalRetries -> TableKinds] :
                  Cardinality({i \in 1 .. totalRetries : k[i] # "ddl"})
                      <= MaxGuessed}}
    /\ tablesForDrop = callerTables /\ dropAliased = TRUE
    /\ tablesForRestore = <<>>
    /\ notRestoredTables = <<>> /\ restoreRetries = 0
    /\ isDatabaseCreated = {}
    /\ notDroppedTables = <<>> /\ dropRetries = 0
    /\ sIdx = 1 /\ schemaErr = "none"
    /\ done = {} /\ passes = 0
    /\ okAttempts = [t \in Tables |-> 0]
    /\ failedInPass = <<>> /\ lastFailed = <<>>
    /\ dbAttempts = [d \in Databases |-> 0] /\ lateAttempt = FALSE
    /\ lastDrop = NoDrop

NextRestoreSchema ==
    \/ RestoreSchemaSelect
    \/ RestoreSchemaCreate
    \/ DropEnter
    \/ DropAttempt
    \/ DropPassEnd
    \/ CreateEnter
    \/ CreateAttempt
    \/ CreatePassEnd

SpecRestoreSchema == InitRestoreSchema /\ [][NextRestoreSchema]_vars

\* DropTable calls made so far by the drop loop of the call
DropTableCalls ==
    phase = "drop" /\ (dropRetries > 0 \/ \E t \in Tables : okAttempts[t] > 0)

\* C25: a RestoreSchema call that was not asked to drop existing tables has
\* made no DropTable call while it has not reached the create phase.
C25_DropOnlyWhenRequested ==
    (schemaCall.active /\ ~schemaCall.dropTable) => ~DropTableCalls


(***************************************************************************)
(* One call of RestoreSchema or one data restore.                          *)
(***************************************************************************)
InitSelect == InitRestoreSchema \/ InitData

NextSelect == NextRestoreSchema \/ NextData

SpecSelect == InitSelect /\ [][NextSelect]_vars

\* nothing was issued by a RestoreSchema call: no DropTable, CreateDatabase
\* or CreateTable call, and no statement of the embedded restore
NothingIssuedBySchema ==
    /\ phase = "select"
    /\ dropRetries = 0 /\ restoreRetries = 0 /\ passes = 0
    /\ \A t \in Tables : okAttempts[t] = 0
    /\ \A d \in Databases : dbAttempts[d] = 0
    /\ isDatabaseCreated = {} /\ lastDrop = NoDrop

\* nothing was placed or issued by a data restore
NothingIssuedByData ==
    /\ copyCalls = <<>> /\ attachCalls = <<>>
    /\ ~restoreResults.asked /\ embeddedCall = NoEmbeddedCall
    /\ dataTables = <<>>

\* C28: when the pattern selects no table, RestoreSchema and RestoreData
\* return (if the steps before the selection did not fail) the
\* no-matching-tables error, and they have made no DropTable,
\* CreateDatabase or CreateTable call, placed no part and issued no attach or
\* embedded restore statement; and that error is returned in no other case.
C28_NoMatchReturnsBeforeActing ==
    /\ (schemaCall.active /\ callerTables = <<>>) =>
          /\ NothingIssuedBySchema
          /\ sPc = "done" => schemaErr \in {"nomatch", "prepare"}
    /\ schemaErr = "nomatch" => callerTables = <<>>
    /\ (dPc \in {"select", "gettables", "embedded", "done"}
           /\ backupTables # <<>> /\ Selected = <<>>) =>
          /\ NothingIssuedByData
          /\ dPc \in {"select", "done"}
          /\ dPc = "done" => dataErr.kind \in {"nomatch", "prepare"}
    /\ dataErr.kind = "nomatch" => Selected = <<>>

\* C28 witness: a RestoreSchema call whose pattern selected nothing returned
\* the no-matching-tables error
C28_Witness ==
    /\ schemaCall.active /\ sPc = "done" /\ schemaErr = "nomatch"

\* a data restore whose pattern selected nothing returned the error
C28_DataWitness ==
    /\ dPc = "done" /\ dataErr.kind = "nomatch" /\ backupTables # <<>>

=============================================================================
